---------------------------- MODULE Spec2Model ----------------------------
(***************************************************************************)
(* A model of the OSRDIO driver (src/src/OsrDio.cpp, src/src/OsrDio.h,     *)
(* the IOCTL header src/unnamed/part_000 and the test client               *)
(* src/unnamed/part_001).                                                  *)
(*                                                                         *)
(* A ULONG is modelled as the set of the positions of its 1 bits, a        *)
(* subset of 0..31: TLC's integers are 32-bit signed and cannot hold       *)
(* 0xFFFFFFFF.  x & y is intersection, x | y is union, ~x is the           *)
(* complement within 0..31, 0 is {} and 0xFFFFFFFF is 0..31.               *)
(*                                                                         *)
(* Every callback of the driver is one action; the registers it reads and  *)
(* writes, in program order, are recorded in last.acc, and the values last *)
(* written to the device are kept in regs.                                 *)
(***************************************************************************)
EXTENDS Integers, Sequences, FiniteSets

(***************************************************************************)
(* ULONG arithmetic                                                        *)
(***************************************************************************)
ULONG_BITS == 32

AllLines == 0 .. (ULONG_BITS - 1)

\* The ULONG whose value is the number n, for 0 <= n < 2^31.
ULONG(n) == {i \in 0 .. (ULONG_BITS - 2) : (n \div (2 ^ i)) % 2 = 1}

\* The ULONG 0xHHHHLLLL given its two 16-bit halves as numbers.
ULONG_HiLo(hi, lo) == ULONG(lo) \cup {i + 16 : i \in ULONG(hi)}

BitAnd(x, y) == x \cap y

BitOr(x, y) == x \cup y

BitNot(x) == AllLines \ x

BIT_NUMBER(x) == {x}

\* 0x00000000 and 0x00000001.
ZERO == ULONG(0)

ONE == ULONG(1)

(***************************************************************************)
(* Program constants (OsrDio.h, OsrDio_IOCTL.h)                            *)
(***************************************************************************)
DIO_BAR_SIZE == 512 * 1024

Set_CPU_Int == BIT_NUMBER(31)
Clear_CPU_Int == BIT_NUMBER(30)
Set_STC3_Int == BIT_NUMBER(11)
Clear_STC3_Int == BIT_NUMBER(10)

WatchdogTimer_Interrupt_Disable == BIT_NUMBER(26)
DI_Interrupt_Disable == BIT_NUMBER(22)
DI_Interrupt_Enable == BIT_NUMBER(6)

ChangeDetectErrorIRQ_Enable == BIT_NUMBER(7)
ChangeDetectErrorIRQ_Disable == BIT_NUMBER(6)
ChangeDetectIRQ_Enable == BIT_NUMBER(5)
ChangeDetectIRQ_Disable == BIT_NUMBER(4)
ChangeDetectErrorIRQ_Acknowledge == BIT_NUMBER(1)
ChangeDetectIRQ_Acknowledge == BIT_NUMBER(0)

Software_Reset == BIT_NUMBER(0)

ChangeDetectError == BIT_NUMBER(1)
ChangeDetectStatus == BIT_NUMBER(0)

Vol_Int == BIT_NUMBER(31)
Vol_STC3_Int == BIT_NUMBER(11)

Filter_Large_All_Lines == AllLines

\* sizeof(OSRDIO_READ_DATA), sizeof(OSRDIO_WRITE_DATA),
\* sizeof(OSRDIO_SET_OUTPUTS_DATA), sizeof(OSRDIO_CHANGE_DATA): one ULONG each.
SizeofReadData == 4
SizeofWriteData == 4
SizeofSetOutputsData == 4
SizeofChangeData == 4

(***************************************************************************)
(* Bounds and the inputs the actions draw from                             *)
(***************************************************************************)
\* Number of wait-for-change requests issued in one behaviour.
MaxRequests == 2

RequestIds == 1 .. MaxRequests

\* Wait-for-change requests issued in the behaviours checked for liveness.
MaxLiveRequests == 1

\* DpcForIsr instances that can hold a retrieved request at the same time
\* (one per processor running the DpcForIsr).
MaxDpcRunning == 1

\* Output-mask payloads: 0, 0x0000000F, 0xFFFFFFFF.
MaskValues == {ZERO, ULONG(15), AllLines}

\* Write payload: 0x00000035, with lines inside and outside the mask
\* 0x0000000F.
WriteValues == {ULONG(53)}

\* Values the hardware latches at a change: 0xCAFEBABE, 0x00000001.
LatchValues == {ULONG_HiLo(51966, 47806), ONE}

\* Levels the external wiring puts on the lines: 0x000000A5.
InputValues == {ULONG(165)}

\* Board-level interrupt status read by the ISR.
IntStatusValues == {Vol_STC3_Int, BitOr(Vol_Int, Vol_STC3_Int)}

\* Change-detect status read by the ISR.
ChangeDetectValues ==
    {ZERO, ChangeDetectStatus, ChangeDetectError,
     BitOr(ChangeDetectStatus, ChangeDetectError)}

\* Caller buffer lengths in bytes.
BufferLengths == {0, SizeofChangeData}

\* The ULONG payloads a caller's input buffer of that length can carry: a
\* buffer too short for the structure carries none (it stands as 0).
Payloads(length, values) == IF length >= SizeofWriteData THEN values ELSE {ZERO}

\* What WdfRequestForwardToIoQueue returns: success, or an error of the
\* framework (the driver provides for it, whichever it is).
ForwardStatuses ==
    {"STATUS_SUCCESS", "STATUS_WDF_BUSY", "STATUS_INVALID_DEVICE_STATE"}

\* Errors WdfIoQueueRetrieveNextRequest can return whatever the queue holds
\* (the "other odd error" the DpcForIsr provides for).
RetrieveFailures == {"STATUS_WDF_PAUSED"}

(***************************************************************************)
(* The register block (OsrDio.h, DIO_REGISTERS).  The data registers keep  *)
(* the value last written.  The interrupt registers take commands: a bit   *)
(* written as 1 enables, disables or acknowledges one interrupt source     *)
(* (Set_/Clear_, _Enable/_Disable, _Acknowledge), and what persists is the *)
(* set of sources that are enabled.  Software_Reset resets the device: the *)
(* driver does not count on the sources it leaves enabled (it disables     *)
(* every one of them next), so it may leave any; the data registers the    *)
(* driver counts on (it restores the outputs before it resets on interrupt *)
(* enable) keep their values.                                              *)
(***************************************************************************)
DataRegisters ==
    {"Static_Digital_Output_Register", "DIO_Direction_Register",
     "DI_FilterRegister_Port0and1", "DI_FilterRegister_Port2and3",
     "DI_ChangeIrqRE_Register", "DI_ChangeIrqFE_Register"}

\* The enable and disable bits of the interrupt registers.
InterruptCommands ==
    { [reg |-> "Interrupt_Mask_Register", bit |-> Set_CPU_Int,
       source |-> "CPU_Int", enable |-> TRUE],
      [reg |-> "Interrupt_Mask_Register", bit |-> Clear_CPU_Int,
       source |-> "CPU_Int", enable |-> FALSE],
      [reg |-> "Interrupt_Mask_Register", bit |-> Set_STC3_Int,
       source |-> "STC3_Int", enable |-> TRUE],
      [reg |-> "Interrupt_Mask_Register", bit |-> Clear_STC3_Int,
       source |-> "STC3_Int", enable |-> FALSE],
      [reg |-> "GlobalInterruptEnable_Register", bit |-> DI_Interrupt_Enable,
       source |-> "DI_Interrupt", enable |-> TRUE],
      [reg |-> "GlobalInterruptEnable_Register", bit |-> DI_Interrupt_Disable,
       source |-> "DI_Interrupt", enable |-> FALSE],
      [reg |-> "GlobalInterruptEnable_Register",
       bit |-> WatchdogTimer_Interrupt_Disable,
       source |-> "WatchdogTimer_Interrupt", enable |-> FALSE],
      [reg |-> "ChangeDetectIRQ_Register", bit |-> ChangeDetectIRQ_Enable,
       source |-> "ChangeDetectIRQ", enable |-> TRUE],
      [reg |-> "ChangeDetectIRQ_Register", bit |-> ChangeDetectIRQ_Disable,
       source |-> "ChangeDetectIRQ", enable |-> FALSE],
      [reg |-> "ChangeDetectIRQ_Register", bit |-> ChangeDetectErrorIRQ_Enable,
       source |-> "ChangeDetectErrorIRQ", enable |-> TRUE],
      [reg |-> "ChangeDetectIRQ_Register", bit |-> ChangeDetectErrorIRQ_Disable,
       source |-> "ChangeDetectErrorIRQ", enable |-> FALSE] }

InterruptSources == {c.source : c \in InterruptCommands}

\* Variant: the input register shows the external levels on every line.
Static_Digital_Input_External(r, external) == external

\* What the static digital input register holds: the state of all 32 lines.
\* A line set to output carries what the output register drives on it, any
\* other line carries the external level.
Static_Digital_Input(r, external) ==
    BitOr(BitAnd(r["Static_Digital_Output_Register"],
                 r["DIO_Direction_Register"]),
          BitAnd(external, BitNot(r["DIO_Direction_Register"])))

READ_REGISTER_ULONG(reg, val) == [rw |-> "R", reg |-> reg, val |-> val]

WRITE_REGISTER_ULONG(reg, val) == [rw |-> "W", reg |-> reg, val |-> val]

\* The data registers after the accesses acc, made in order.
RECURSIVE ApplyAccesses(_, _)
ApplyAccesses(r, acc) ==
    IF acc = <<>> THEN r
    ELSE ApplyAccesses(
             IF Head(acc).rw = "W" /\ Head(acc).reg \in DataRegisters
                 THEN [r EXCEPT ![Head(acc).reg] = Head(acc).val]
                 ELSE r,
             Tail(acc))

\* The enabled interrupt sources after one write.
CommandEffect(enabled, a) ==
    LET hit(c) == a.rw = "W" /\ a.reg = c.reg /\ BitAnd(a.val, c.bit) # ZERO
    IN (enabled \cup {c.source : c \in {d \in InterruptCommands :
                                          hit(d) /\ d.enable}})
       \ {c.source : c \in {d \in InterruptCommands : hit(d) /\ ~d.enable}}

\* The enabled interrupt sources after the accesses acc, made in order.
RECURSIVE ApplyCommands(_, _)
ApplyCommands(enabled, acc) ==
    IF acc = <<>> THEN enabled
    ELSE ApplyCommands(CommandEffect(enabled, Head(acc)), Tail(acc))

\* The write a resets the device.
ResetsDevice(a) ==
    /\ a.rw = "W"
    /\ a.reg = "Joint_Reset_Register"
    /\ BitAnd(a.val, Software_Reset) # ZERO

\* The sets of interrupt sources that may be enabled after the accesses acc,
\* made in order with the sources of enabled on.  Without a software reset
\* it is the one set the command bits give.  After a software reset a
\* source is as the commands written since have left it, and a source no
\* command was written for since may be on or off.
RunOutcomes(enabled, acc) ==
    LET resets == {k \in 1 .. Len(acc) : ResetsDevice(acc[k])}
    IN IF resets = {}
           THEN {ApplyCommands(enabled, acc)}
           ELSE LET k == CHOOSE n \in resets : \A m \in resets : m <= n
                    since == SubSeq(acc, k + 1, Len(acc))
                    off == ApplyCommands({}, since)
                    on == ApplyCommands(InterruptSources, since)
                IN {off \cup unknown : unknown \in SUBSET (on \ off)}

(***************************************************************************)
(* State                                                                   *)
(***************************************************************************)
VARIABLES
    devState,               \* PnP/power position of the device instance
    DevBase,                \* "nullptr" or "mapped"
    MappedLength,
    OutputLineMask,
    SavedOutputLineState,
    LatchedInputLineState,
    PendingQueue,           \* sequence of queued wait-for-change requests
    regs,                   \* value last written to each data register
    irqEnabled,             \* the interrupt sources that are enabled
    dpcQueued,              \* the DpcForIsr is queued and has not yet run
    dpcRunning,             \* the requests retrieved by DpcForIsr instances
                            \* that have not completed them yet (the
                            \* waitingRequest of each)
    nextRequest,            \* id of the next wait-for-change request
    completed,              \* per request: how many times it was completed
    undelivered,            \* history: the captured change has not been
                            \* through the end of a DpcForIsr run
    seenCapture,            \* history: the requests, not completed since,
                            \* that were queued or held by a DpcForIsr when
                            \* LatchedInputLineState was last captured
    capturedInRun,          \* history: a DpcForIsr held a request when
                            \* LatchedInputLineState was last captured
    last                    \* the callback that ran last and what it did

vars ==
    <<devState, DevBase, MappedLength, OutputLineMask, SavedOutputLineState,
      LatchedInputLineState, PendingQueue, regs, irqEnabled, dpcQueued,
      dpcRunning, nextRequest, completed, undelivered, seenCapture,
      capturedInRun, last>>

hw == <<regs, irqEnabled>>

\* The device after a callback has made the accesses acc.
Accesses(acc) ==
    /\ regs' = ApplyAccesses(regs, acc)
    /\ irqEnabled' \in RunOutcomes(irqEnabled, acc)

ctx == <<DevBase, MappedLength, OutputLineMask, SavedOutputLineState,
         LatchedInputLineState>>

\* What a callback reports in last: its name, the ULONG payload and buffer
\* lengths it was given, the request it was about (0: none that is tracked),
\* whether and how it completed it, the data returned, and its register
\* accesses in program order.
Did(op, value, inLen, outLen, request, done, status, information, data, acc) ==
    [op |-> op, value |-> value, inLen |-> inLen, outLen |-> outLen,
     request |-> request, completed |-> done, status |-> status,
     information |-> information, data |-> data, acc |-> acc]

\* A callback that is given no request.
DidCallback(op, status, acc) ==
    Did(op, ZERO, 0, 0, 0, FALSE, status, 0, ZERO, acc)

\* The device holds unknown values until the driver programs it.
InitialRegisterFiles ==
    {[r \in DataRegisters |-> ZERO], [r \in DataRegisters |-> AllLines]}

\* WdfDeviceCreate zeroes the device context (OsrDioEvtDriverDeviceAdd).
Init ==
    /\ devState = "Added"
    /\ DevBase = "nullptr"
    /\ MappedLength = 0
    /\ OutputLineMask = ZERO
    /\ SavedOutputLineState = ZERO
    /\ LatchedInputLineState = ZERO
    /\ PendingQueue = <<>>
    /\ regs \in InitialRegisterFiles
    /\ irqEnabled \in {{}, InterruptSources}
    /\ dpcQueued = FALSE
    /\ dpcRunning = {}
    /\ nextRequest = 1
    /\ completed = [i \in RequestIds |-> 0]
    /\ undelivered = FALSE
    /\ seenCapture = {}
    /\ capturedInRun = FALSE
    /\ last = DidCallback("DeviceAdd", "STATUS_SUCCESS", <<>>)


(***************************************************************************)
(* Framework services, as the driver uses them                             *)
(***************************************************************************)
NT_SUCCESS(status) == status = "STATUS_SUCCESS"

\* WdfRequestRetrieveInputBuffer / WdfRequestRetrieveOutputBuffer on a
\* buffered request: the buffer is handed out iff it holds at least
\* minimumLength bytes.
WdfRequestRetrieveBuffer(length, minimumLength) ==
    IF length >= minimumLength /\ length > 0
        THEN "STATUS_SUCCESS"
        ELSE "STATUS_BUFFER_TOO_SMALL"

\* WdfRequestCompleteWithInformation: the request is completed once more
\* (its status, byte count and data are reported in last).
WdfRequestCompleteWithInformation(c, id) == [c EXCEPT ![id] = @ + 1]

\* WdfRequestForwardToIoQueue: the request goes to the tail of the queue.
WdfRequestForwardToIoQueue(queue, req) == Append(queue, req)

\* What WdfIoQueueRetrieveNextRequest returns for a queue, answer being what
\* the framework says of a queue it is asked to hand a request from: an error
\* of the framework comes back as it is, and a framework that works reports
\* STATUS_NO_MORE_ENTRIES for an empty queue and success otherwise.
WdfIoQueueRetrieveNextRequestStatus(queue, answer) ==
    IF ~NT_SUCCESS(answer)
        THEN answer
        ELSE IF queue = <<>> THEN "STATUS_NO_MORE_ENTRIES" ELSE "STATUS_SUCCESS"

\* Variant: the newest request is taken instead of the oldest.
WdfIoQueueRetrieveNextRequest_Newest(queue) == queue[Len(queue)]

\* WdfIoQueueRetrieveNextRequest: the request at the head of the queue.
WdfIoQueueRetrieveNextRequest(queue) == Head(queue)

\* Variant: the request is looked at but stays in the queue.
QueueAfterRetrieve_Keep(queue) == queue

\* The queue once WdfIoQueueRetrieveNextRequest has taken its request.
QueueAfterRetrieve(queue) == Tail(queue)

(***************************************************************************)
(* Utility routines                                                        *)
(***************************************************************************)
\* Variant: the change masks are written before the direction register.
DioUtilProgramLineDirectionAndChangeMasks_EdgesFirst(mask) ==
    << WRITE_REGISTER_ULONG("DI_FilterRegister_Port0and1", Filter_Large_All_Lines),
       WRITE_REGISTER_ULONG("DI_FilterRegister_Port2and3", Filter_Large_All_Lines),
       WRITE_REGISTER_ULONG("DI_ChangeIrqRE_Register", BitNot(mask)),
       WRITE_REGISTER_ULONG("DI_ChangeIrqFE_Register", BitNot(mask)),
       WRITE_REGISTER_ULONG("DIO_Direction_Register", mask) >>

\* Variant: the change masks are programmed with the output mask itself.
DioUtilProgramLineDirectionAndChangeMasks_Uncomplemented(mask) ==
    << WRITE_REGISTER_ULONG("DI_FilterRegister_Port0and1", Filter_Large_All_Lines),
       WRITE_REGISTER_ULONG("DI_FilterRegister_Port2and3", Filter_Large_All_Lines),
       WRITE_REGISTER_ULONG("DIO_Direction_Register", mask),
       WRITE_REGISTER_ULONG("DI_ChangeIrqRE_Register", mask),
       WRITE_REGISTER_ULONG("DI_ChangeIrqFE_Register", mask) >>

DioUtilProgramLineDirectionAndChangeMasks(mask) ==
    << WRITE_REGISTER_ULONG("DI_FilterRegister_Port0and1", Filter_Large_All_Lines),
       WRITE_REGISTER_ULONG("DI_FilterRegister_Port2and3", Filter_Large_All_Lines),
       WRITE_REGISTER_ULONG("DIO_Direction_Register", mask),
       WRITE_REGISTER_ULONG("DI_ChangeIrqRE_Register", BitNot(mask)),
       WRITE_REGISTER_ULONG("DI_ChangeIrqFE_Register", BitNot(mask)) >>

\* Variant: the global interrupt enable register is left out of the reset.
DioUtilResetDeviceInterrupts_NoGlobalDisable ==
    << WRITE_REGISTER_ULONG("Joint_Reset_Register", Software_Reset),
       WRITE_REGISTER_ULONG("Interrupt_Mask_Register",
                            BitOr(Clear_CPU_Int, Clear_STC3_Int)),
       WRITE_REGISTER_ULONG("ChangeDetectIRQ_Register",
                            BitOr(BitOr(ChangeDetectIRQ_Acknowledge,
                                        ChangeDetectIRQ_Disable),
                                  BitOr(ChangeDetectErrorIRQ_Acknowledge,
                                        ChangeDetectErrorIRQ_Disable))) >>

\* Variant: the software reset is issued after the interrupt sources were
\* disabled and acknowledged.
DioUtilResetDeviceInterrupts_ResetLast ==
    << WRITE_REGISTER_ULONG("Interrupt_Mask_Register",
                            BitOr(Clear_CPU_Int, Clear_STC3_Int)),
       WRITE_REGISTER_ULONG("GlobalInterruptEnable_Register",
                            BitOr(DI_Interrupt_Disable,
                                  WatchdogTimer_Interrupt_Disable)),
       WRITE_REGISTER_ULONG("ChangeDetectIRQ_Register",
                            BitOr(BitOr(ChangeDetectIRQ_Acknowledge,
                                        ChangeDetectIRQ_Disable),
                                  BitOr(ChangeDetectErrorIRQ_Acknowledge,
                                        ChangeDetectErrorIRQ_Disable))),
       WRITE_REGISTER_ULONG("Joint_Reset_Register", Software_Reset) >>

DioUtilResetDeviceInterrupts ==
    << WRITE_REGISTER_ULONG("Joint_Reset_Register", Software_Reset),
       WRITE_REGISTER_ULONG("Interrupt_Mask_Register",
                            BitOr(Clear_CPU_Int, Clear_STC3_Int)),
       WRITE_REGISTER_ULONG("GlobalInterruptEnable_Register",
                            BitOr(DI_Interrupt_Disable,
                                  WatchdogTimer_Interrupt_Disable)),
       WRITE_REGISTER_ULONG("ChangeDetectIRQ_Register",
                            BitOr(BitOr(ChangeDetectIRQ_Acknowledge,
                                        ChangeDetectIRQ_Disable),
                                  BitOr(ChangeDetectErrorIRQ_Acknowledge,
                                        ChangeDetectErrorIRQ_Disable))) >>

DioUtilEnableDeviceInterrupts ==
    << WRITE_REGISTER_ULONG("GlobalInterruptEnable_Register", DI_Interrupt_Enable),
       WRITE_REGISTER_ULONG("ChangeDetectIRQ_Register",
                            BitOr(ChangeDetectErrorIRQ_Enable,
                                  ChangeDetectIRQ_Enable)),
       WRITE_REGISTER_ULONG("Interrupt_Mask_Register",
                            BitOr(Set_CPU_Int, Set_STC3_Int)) >>

\* Variant: the device reset leaves the output register as it finds it.
DioUtilDeviceReset_KeepOutputs ==
    DioUtilResetDeviceInterrupts \o
    << WRITE_REGISTER_ULONG("DIO_Direction_Register", ZERO),
       WRITE_REGISTER_ULONG("DI_ChangeIrqRE_Register", ZERO),
       WRITE_REGISTER_ULONG("DI_ChangeIrqFE_Register", ZERO) >>

DioUtilDeviceReset ==
    DioUtilResetDeviceInterrupts \o
    << WRITE_REGISTER_ULONG("DIO_Direction_Register", ZERO),
       WRITE_REGISTER_ULONG("Static_Digital_Output_Register", ZERO),
       WRITE_REGISTER_ULONG("DI_ChangeIrqRE_Register", ZERO),
       WRITE_REGISTER_ULONG("DI_ChangeIrqFE_Register", ZERO) >>

(***************************************************************************)
(* PnP and power callbacks                                                 *)
(***************************************************************************)
MemoryResource(length) == [Type |-> "CmResourceTypeMemory", Length |-> length]

InterruptResource == [Type |-> "CmResourceTypeInterrupt", Length |-> 0]

PrivateResource == [Type |-> "CmResourceTypeDevicePrivate", Length |-> 0]

\* Translated resource lists handed to EvtDevicePrepareHardware.
ResourceLists ==
    { <<MemoryResource(DIO_BAR_SIZE), InterruptResource>>,
      <<MemoryResource(4096), MemoryResource(DIO_BAR_SIZE), PrivateResource,
        InterruptResource>>,
      <<MemoryResource(4096), InterruptResource>>,
      <<MemoryResource(DIO_BAR_SIZE)>> }

\* The resource loop of EvtDevicePrepareHardware: the mapping and the
\* interrupt it finds.  mapped: whether MmMapIoSpaceEx succeeds.
RECURSIVE ScanResources(_, _, _)
ScanResources(list, mapped, found) ==
    IF list = <<>> THEN found
    ELSE LET d == Head(list) IN
         ScanResources(
             Tail(list), mapped,
             IF d.Type = "CmResourceTypeMemory" /\ d.Length = DIO_BAR_SIZE
                 THEN [found EXCEPT
                         !.DevBase = IF mapped THEN "mapped" ELSE "nullptr",
                         !.MappedLength = IF mapped THEN d.Length ELSE 0]
             ELSE IF d.Type = "CmResourceTypeInterrupt"
                 THEN [found EXCEPT !.interruptFound = TRUE]
             ELSE found)

\* Variant: the device is started without its registers being mapped.
PrepareFails_MappingOptional(found) == ~found.interruptFound

\* Variant: the device is started without an interrupt resource.
PrepareFails_InterruptOptional(found) == found.DevBase = "nullptr"

\* "Did we get the resources we need?": no.
PrepareFails(found) == found.DevBase = "nullptr" \/ ~found.interruptFound

OsrDioEvtDevicePrepareHardware(list, mapped) ==
    /\ devState = "Added"
    /\ LET found == ScanResources(list, mapped,
                                  [DevBase |-> DevBase,
                                   MappedLength |-> MappedLength,
                                   interruptFound |-> FALSE])
       IN /\ DevBase' = found.DevBase
          /\ MappedLength' = found.MappedLength
          /\ IF PrepareFails(found)
                THEN /\ devState' = "PrepareFailed"
                     /\ UNCHANGED <<OutputLineMask, SavedOutputLineState, hw>>
                     /\ last' = DidCallback(
                                    "PrepareHardware",
                                    "STATUS_PNP_DRIVER_CONFIGURATION_NOT_FOUND",
                                    <<>>)
                ELSE /\ devState' = "Dx"
                     /\ OutputLineMask' = ZERO
                     /\ SavedOutputLineState' = ZERO
                     /\ Accesses(DioUtilDeviceReset)
                     /\ last' = DidCallback("PrepareHardware", "STATUS_SUCCESS",
                                            DioUtilDeviceReset)
    /\ UNCHANGED <<LatchedInputLineState, PendingQueue, dpcQueued, dpcRunning, nextRequest,
                   completed, undelivered,
                   seenCapture, capturedInRun>>

\* Called when the resources are returned, and after a failed
\* EvtDevicePrepareHardware.
OsrDioEvtDeviceReleaseHardware ==
    /\ devState \in {"Dx", "PrepareFailed"}
    /\ devState' = IF devState = "Dx" THEN "Added" ELSE "Removed"
    /\ DevBase' = "nullptr"
    /\ MappedLength' = IF DevBase # "nullptr" THEN 0 ELSE MappedLength
    /\ last' = DidCallback("ReleaseHardware", "STATUS_SUCCESS", <<>>)
    /\ UNCHANGED <<OutputLineMask, SavedOutputLineState, LatchedInputLineState,
                   PendingQueue, hw, dpcQueued, dpcRunning, nextRequest, completed,
                   undelivered,
                   seenCapture, capturedInRun>>

\* Variant: power-up also programs the line direction and change masks.
D0EntryAccesses_Rearm(saved, mask) ==
    << WRITE_REGISTER_ULONG("Static_Digital_Output_Register", saved) >>
    \o DioUtilProgramLineDirectionAndChangeMasks(mask)

\* The register accesses of EvtDeviceD0Entry.
D0EntryAccesses(saved, mask) ==
    << WRITE_REGISTER_ULONG("Static_Digital_Output_Register", saved) >>

OsrDioEvtDeviceD0Entry ==
    /\ devState = "Dx"
    /\ devState' = "D0"
    /\ LET acc == D0EntryAccesses(SavedOutputLineState, OutputLineMask)
       IN /\ Accesses(acc)
          /\ last' = DidCallback("D0Entry", "STATUS_SUCCESS", acc)
    /\ UNCHANGED <<ctx, PendingQueue, dpcQueued, dpcRunning, nextRequest, completed,
                   undelivered,
                   seenCapture, capturedInRun>>

\* Variant: the line state is saved as it was read.
outputLineState_Unmasked(input, mask) == input

\* The line state D0Exit saves: what it read, restricted to the output lines.
outputLineState(input, mask) == BitAnd(input, mask)

\* The framework runs a queued DpcForIsr, to its end, before the device
\* leaves D0.
OsrDioEvtDeviceD0Exit(input) ==
    /\ devState = "D0"
    /\ ~dpcQueued
    /\ dpcRunning = {}
    /\ devState' = "Dx"
    /\ SavedOutputLineState' = outputLineState(input, OutputLineMask)
    /\ last' = DidCallback(
                   "D0Exit", "STATUS_SUCCESS",
                   << READ_REGISTER_ULONG("Static_Digital_Input_Register", input) >>)
    /\ UNCHANGED <<DevBase, MappedLength, OutputLineMask, LatchedInputLineState,
                   PendingQueue, hw, dpcQueued, dpcRunning, nextRequest, completed,
                   undelivered,
                   seenCapture, capturedInRun>>

\* Variant: the line direction and change masks are not programmed.
InterruptEnableAccesses_NoProgram(mask) ==
    DioUtilResetDeviceInterrupts \o DioUtilEnableDeviceInterrupts

\* Variant: the line direction and change masks are programmed before the
\* interrupt sources are enabled.
InterruptEnableAccesses_ProgramFirst(mask) ==
    DioUtilResetDeviceInterrupts
    \o DioUtilProgramLineDirectionAndChangeMasks(mask)
    \o DioUtilEnableDeviceInterrupts

\* Variant: the interrupt sources are enabled without the reset before.
InterruptEnableAccesses_NoReset(mask) ==
    DioUtilEnableDeviceInterrupts
    \o DioUtilProgramLineDirectionAndChangeMasks(mask)

\* The register accesses of EvtInterruptEnable, in program order.
InterruptEnableAccesses(mask) ==
    DioUtilResetDeviceInterrupts
    \o DioUtilEnableDeviceInterrupts
    \o DioUtilProgramLineDirectionAndChangeMasks(mask)

OsrDioEvtInterruptEnable ==
    /\ devState = "D0"
    /\ devState' = "Working"
    /\ LET acc == InterruptEnableAccesses(OutputLineMask)
       IN /\ Accesses(acc)
          /\ last' = DidCallback("InterruptEnable", "STATUS_SUCCESS", acc)
    /\ UNCHANGED <<ctx, PendingQueue, dpcQueued, dpcRunning, nextRequest, completed,
                   undelivered,
                   seenCapture, capturedInRun>>

OsrDioEvtInterruptDisable ==
    /\ devState = "Working"
    /\ devState' = "D0"
    /\ Accesses(DioUtilResetDeviceInterrupts)
    /\ last' = DidCallback("InterruptDisable", "STATUS_SUCCESS",
                           DioUtilResetDeviceInterrupts)
    /\ UNCHANGED <<ctx, PendingQueue, dpcQueued, dpcRunning, nextRequest, completed,
                   undelivered,
                   seenCapture, capturedInRun>>

(***************************************************************************)
(* OsrDioEvtIoDeviceControl.  The default queue dispatches sequentially    *)
(* and is power managed: one request at a time, while the device works.    *)
(* A request forwarded to PendingQueue no longer holds the dispatcher.     *)
(***************************************************************************)
\* Variant: the write path does not look at the output mask.
NoOutputLines_Never(mask) == FALSE

\* IOCTL_OSRDIO_WRITE: "We can't write anything if there are no lines set
\* to output".
NoOutputLines(mask) == mask = ZERO

\* Variant: the requested bitmask is written as it is.
LinesToAssert_Unmasked(requested, mask) == requested

\* IOCTL_OSRDIO_WRITE: the lines asserted for a requested bitmask.
LinesToAssert(requested, mask) == BitAnd(requested, mask)

\* Variant: output lines are added to the ones already set.
NewOutputLineMask_Accumulate(old, requested) == BitOr(old, requested)

\* IOCTL_OSRDIO_SET_OUTPUTS: the new output mask.
NewOutputLineMask(old, requested) == requested

\* Variant: the mask is tested without being complemented.
NoInputLines_Uncomplemented(mask) == mask = ZERO

\* IOCTL_OSRDIO_WAITFOR_CHANGE: all the lines are set to output.
NoInputLines(mask) == BitNot(mask) = ZERO

\* IOCTL_OSRDIO_WAITFOR_CHANGE: the status the request leaves the checks with;
\* forwarded is the status of WdfRequestForwardToIoQueue.
WaitForChangeStatus(mask, outLen, forwarded) ==
    IF NoInputLines(mask) THEN "STATUS_NONE_MAPPED"
    ELSE IF outLen < SizeofChangeData THEN "STATUS_INVALID_BUFFER_SIZE"
    ELSE forwarded

\* Variant: a newly queued request takes the place of the ones queued.
PendingQueueAfterWait_Replace(queue, req, status) ==
    IF NT_SUCCESS(status) THEN << req >> ELSE queue

\* Variant: the request is queued whatever the checks said.
PendingQueueAfterWait_Always(queue, req, status) ==
    WdfRequestForwardToIoQueue(queue, req)

\* IOCTL_OSRDIO_WAITFOR_CHANGE: PendingQueue when the handler returns.
PendingQueueAfterWait(queue, req, status) ==
    IF NT_SUCCESS(status) THEN WdfRequestForwardToIoQueue(queue, req) ELSE queue

\* Variant: a read reports the line state the ISR latched.
CurrentLineState_Latched(input, mask) == LatchedInputLineState

\* Variant: a read reports the output lines only.
CurrentLineState_OutputLines(input, mask) == BitAnd(input, mask)

\* What a read puts in OSRDIO_READ_DATA: the input register as it was read.
CurrentLineState(input, mask) == input

IoctlRead(outLen, input) ==
    /\ devState = "Working"
    /\ LET status == WdfRequestRetrieveBuffer(outLen, SizeofReadData) IN
       last' = IF NT_SUCCESS(status)
                  THEN Did("IOCTL_OSRDIO_READ", ZERO, 0, outLen, 0, TRUE,
                           "STATUS_SUCCESS", SizeofReadData,
                           CurrentLineState(input, OutputLineMask),
                           << READ_REGISTER_ULONG("Static_Digital_Input_Register",
                                                  input) >>)
                  ELSE Did("IOCTL_OSRDIO_READ", ZERO, 0, outLen, 0, TRUE,
                           status, 0, ZERO, <<>>)
    /\ UNCHANGED <<devState, ctx, PendingQueue, hw, dpcQueued, dpcRunning, nextRequest,
                   completed, undelivered,
                   seenCapture, capturedInRun>>

IoctlWrite(inLen, requested) ==
    /\ devState = "Working"
    /\ LET status == IF NoOutputLines(OutputLineMask)
                        THEN "STATUS_INVALID_DEVICE_STATE"
                        ELSE WdfRequestRetrieveBuffer(inLen, SizeofWriteData)
           acc == IF NT_SUCCESS(status)
                     THEN << WRITE_REGISTER_ULONG(
                                 "Static_Digital_Output_Register",
                                 LinesToAssert(requested, OutputLineMask)) >>
                     ELSE <<>>
       IN /\ Accesses(acc)
          /\ last' = Did("IOCTL_OSRDIO_WRITE", requested, inLen, 0, 0, TRUE,
                         status,
                         IF NT_SUCCESS(status) THEN SizeofWriteData ELSE 0,
                         ZERO, acc)
    /\ UNCHANGED <<devState, ctx, PendingQueue, dpcQueued, dpcRunning, nextRequest,
                   completed, undelivered,
                   seenCapture, capturedInRun>>

IoctlSetOutputs(inLen, requested) ==
    /\ devState = "Working"
    /\ LET status == WdfRequestRetrieveBuffer(inLen, SizeofSetOutputsData)
           mask == IF NT_SUCCESS(status)
                      THEN NewOutputLineMask(OutputLineMask, requested)
                      ELSE OutputLineMask
           acc == IF NT_SUCCESS(status)
                     THEN DioUtilProgramLineDirectionAndChangeMasks(mask)
                     ELSE <<>>
       IN /\ OutputLineMask' = mask
          /\ Accesses(acc)
          /\ last' = Did("IOCTL_OSRDIO_SET_OUTPUTS", requested, inLen, 0, 0, TRUE,
                         status,
                         IF NT_SUCCESS(status) THEN SizeofSetOutputsData ELSE 0,
                         ZERO, acc)
    /\ UNCHANGED <<devState, DevBase, MappedLength, SavedOutputLineState,
                   LatchedInputLineState, PendingQueue, dpcQueued, dpcRunning, nextRequest,
                   completed, undelivered,
                   seenCapture, capturedInRun>>

IoctlWaitForChange(outLen, forwarded) ==
    /\ devState = "Working"
    /\ nextRequest <= MaxRequests
    /\ LET req == [id |-> nextRequest, OutputBufferLength |-> outLen]
           status == WaitForChangeStatus(OutputLineMask, outLen, forwarded)
       IN /\ PendingQueue' = PendingQueueAfterWait(PendingQueue, req, status)
          /\ completed' =
                 IF NT_SUCCESS(status) THEN completed
                 ELSE WdfRequestCompleteWithInformation(completed, req.id)
          /\ last' = Did("IOCTL_OSRDIO_WAITFOR_CHANGE", ZERO, 0, outLen,
                         req.id, ~NT_SUCCESS(status), status, 0, ZERO, <<>>)
    /\ nextRequest' = nextRequest + 1
    /\ UNCHANGED <<devState, ctx, hw, dpcQueued, dpcRunning, undelivered,
                   seenCapture, capturedInRun>>

\* Any other control code.
IoctlOther ==
    /\ devState = "Working"
    /\ last' = Did("IOCTL_OTHER", ZERO, 0, 0, 0, TRUE,
                   "STATUS_INVALID_PARAMETER", 0, ZERO, <<>>)
    /\ UNCHANGED <<devState, ctx, PendingQueue, hw, dpcQueued, dpcRunning, nextRequest,
                   completed, undelivered,
                   seenCapture, capturedInRun>>

(***************************************************************************)
(* OsrDioEvtInterruptIsr                                                   *)
(***************************************************************************)
\* Variant: any bit of the interrupt status makes the interrupt ours.
IsrOwnsInterrupt_AnyStatus(interruptStatus) == interruptStatus # ZERO

\* "Is there an interrupt pending from this device?"
IsrOwnsInterrupt(interruptStatus) == BitAnd(interruptStatus, Vol_Int) # ZERO

\* Variant: a change is captured whether or not the error bit is set.
IsrCapturesChange_ErrorIgnored(changeDetectReg) ==
    BitAnd(changeDetectReg, ChangeDetectStatus) = ONE

\* A line state change is flagged and the error bit is not set.
IsrCapturesChange(changeDetectReg) ==
    /\ BitAnd(changeDetectReg, ChangeDetectStatus) = ONE
    /\ BitAnd(changeDetectReg, ChangeDetectError) = ZERO

\* Variant: the change-detect interrupt is never acknowledged.
IsrAcknowledgesChange_Never(changeDetectReg) == FALSE

\* The ISR acknowledges the change-detect interrupt.
IsrAcknowledgesChange(changeDetectReg) ==
    BitAnd(changeDetectReg, ChangeDetectStatus) # ZERO

\* The ISR acknowledges the change-detect error interrupt.
IsrAcknowledgesError(changeDetectReg) ==
    BitAnd(changeDetectReg, ChangeDetectError) # ZERO

\* Variant: the ISR does not ask for its DpcForIsr.
WdfInterruptQueueDpcForIsr_Never(queued) == queued

\* WdfInterruptQueueDpcForIsr: the DpcForIsr is queued (once, however often
\* it is requested before it runs).
WdfInterruptQueueDpcForIsr(queued) == TRUE

\* Variant: the change-detect interrupt is acknowledged before the latched
\* line state is read.
IsrAccesses_AcknowledgeFirst(interruptStatus, changeDetectReg, latched) ==
    << READ_REGISTER_ULONG("Volatile_Interrupt_Status_Register", interruptStatus) >>
    \o (IF ~IsrOwnsInterrupt(interruptStatus) THEN <<>>
        ELSE << READ_REGISTER_ULONG("ChangeDetectStatusRegister", changeDetectReg) >>
             \o (IF IsrAcknowledgesChange(changeDetectReg)
                    THEN << WRITE_REGISTER_ULONG("ChangeDetectIRQ_Register",
                                                 ChangeDetectIRQ_Acknowledge) >>
                    ELSE <<>>)
             \o (IF IsrCapturesChange(changeDetectReg)
                    THEN << READ_REGISTER_ULONG("DI_ChangeDetectLatched_Register",
                                                latched) >>
                    ELSE <<>>)
             \o (IF IsrAcknowledgesError(changeDetectReg)
                    THEN << WRITE_REGISTER_ULONG("ChangeDetectIRQ_Register",
                                                 ChangeDetectErrorIRQ_Acknowledge) >>
                    ELSE <<>>))

\* The register accesses of one ISR invocation, in program order.
IsrAccesses(interruptStatus, changeDetectReg, latched) ==
    << READ_REGISTER_ULONG("Volatile_Interrupt_Status_Register", interruptStatus) >>
    \o (IF ~IsrOwnsInterrupt(interruptStatus) THEN <<>>
        ELSE << READ_REGISTER_ULONG("ChangeDetectStatusRegister", changeDetectReg) >>
             \o (IF IsrCapturesChange(changeDetectReg)
                    THEN << READ_REGISTER_ULONG("DI_ChangeDetectLatched_Register",
                                                latched) >>
                    ELSE <<>>)
             \o (IF IsrAcknowledgesChange(changeDetectReg)
                    THEN << WRITE_REGISTER_ULONG("ChangeDetectIRQ_Register",
                                                 ChangeDetectIRQ_Acknowledge) >>
                    ELSE <<>>)
             \o (IF IsrAcknowledgesError(changeDetectReg)
                    THEN << WRITE_REGISTER_ULONG("ChangeDetectIRQ_Register",
                                                 ChangeDetectErrorIRQ_Acknowledge) >>
                    ELSE <<>>))

\* What the three registers hold when the ISR runs; a register the ISR does
\* not get to read is left out of the choice (it stands as 0).
IsrInputs ==
    {in \in [interruptStatus : IntStatusValues,
             changeDetectReg : ChangeDetectValues \cup {ZERO},
             latched : LatchValues \cup {ZERO}] :
        /\ ~IsrOwnsInterrupt(in.interruptStatus) => in.changeDetectReg = ZERO
        /\ (IsrOwnsInterrupt(in.interruptStatus)
               /\ IsrCapturesChange(in.changeDetectReg))
              <=> in.latched # ZERO}

OsrDioEvtInterruptIsr(interruptStatus, changeDetectReg, latched) ==
    /\ devState = "Working"
    /\ LET mine == IsrOwnsInterrupt(interruptStatus)
           capture == mine /\ IsrCapturesChange(changeDetectReg)
           acc == IsrAccesses(interruptStatus, changeDetectReg, latched)
       IN /\ LatchedInputLineState' =
                 IF capture THEN latched ELSE LatchedInputLineState
          /\ dpcQueued' = IF capture
                             THEN WdfInterruptQueueDpcForIsr(dpcQueued)
                             ELSE dpcQueued
          /\ undelivered' = (undelivered \/ capture)
          /\ seenCapture' =
                 IF capture
                     THEN {PendingQueue[k].id : k \in 1 .. Len(PendingQueue)}
                          \cup {r.id : r \in dpcRunning}
                     ELSE seenCapture
          /\ capturedInRun' =
                 IF capture THEN dpcRunning # {} ELSE capturedInRun
          /\ Accesses(acc)
          /\ last' = Did("Isr", ZERO, 0, 0, 0, FALSE,
                         IF mine THEN "TRUE" ELSE "FALSE", 0,
                         IF capture THEN latched ELSE ZERO, acc)
    /\ UNCHANGED <<devState, DevBase, MappedLength, OutputLineMask,
                   SavedOutputLineState, PendingQueue, dpcRunning,
                   nextRequest, completed>>

(***************************************************************************)
(* OsrDioEvtInterruptDpc                                                   *)
(***************************************************************************)
\* Variant: the DpcForIsr runs again while requests are pending.
DpcQueuedAfterDpc_Drain(queue) == Len(queue) > 1

\* Variant: a DpcForIsr that found no request runs again later.
DpcQueuedAfterDpc_Retry(queue) == queue = <<>>

\* Whether a DpcForIsr is still queued once the system has taken it off its
\* queue and called it: the DpcForIsr does not queue itself.
DpcQueuedAfterDpc(queue) == FALSE

\* Variant: the DpcForIsr clears the latched line state once it has run.
LatchedAfterDpc_Cleared(latched) == ZERO

\* The DpcForIsr reads LatchedInputLineState and leaves it as it is.
LatchedAfterDpc(latched) == latched

\* Variant: the byte count of a completed wait does not depend on the buffer.
DpcBytesReturned_Always(status) == SizeofChangeData

\* Bytes reported for the request the DpcForIsr completes.
DpcBytesReturned(status) ==
    IF NT_SUCCESS(status) THEN SizeofChangeData ELSE 0

\* The DpcForIsr up to "just leave the DpcForIsr": the system takes the
\* DpcForIsr off its queue and calls it, and it asks PendingQueue for the
\* oldest request.  answer is what the framework says when asked.  The
\* DpcForIsr leaves when it is given no request (there is none, or the
\* framework failed and the requests stay where they are); otherwise it now
\* holds the oldest request.  It takes no lock and is not serialized: the
\* ISR, the dispatch routine, cancellation and (on another processor) a
\* DpcForIsr queued meanwhile can run before it goes on.
DpcForIsrRetrieve(answer) ==
    /\ dpcQueued
    /\ Cardinality(dpcRunning) < MaxDpcRunning
    /\ dpcQueued' = DpcQueuedAfterDpc(PendingQueue)
    /\ LET status == WdfIoQueueRetrieveNextRequestStatus(PendingQueue, answer)
       IN IF ~NT_SUCCESS(status)
             THEN /\ last' = Did("Dpc", ZERO, 0, 0, 0, FALSE, status, 0, ZERO,
                                 <<>>)
                  /\ undelivered' = FALSE
                  /\ LatchedInputLineState' =
                         LatchedAfterDpc(LatchedInputLineState)
                  /\ UNCHANGED <<PendingQueue, dpcRunning>>
             ELSE LET waitingRequest ==
                          WdfIoQueueRetrieveNextRequest(PendingQueue)
                  IN /\ dpcRunning' = dpcRunning \cup {waitingRequest}
                     /\ PendingQueue' = QueueAfterRetrieve(PendingQueue)
                     /\ last' = Did("DpcRetrieve", ZERO, 0,
                                    waitingRequest.OutputBufferLength,
                                    waitingRequest.id, FALSE, status, 0, ZERO,
                                    <<>>)
                     /\ UNCHANGED <<LatchedInputLineState, undelivered>>
    /\ UNCHANGED <<seenCapture, capturedInRun>>
    /\ UNCHANGED <<devState, DevBase, MappedLength, OutputLineMask,
                   SavedOutputLineState, hw, nextRequest, completed>>

\* The DpcForIsr starts when the framework hands out the oldest request of
\* every queue that holds one.
OsrDioEvtInterruptDpcRetrieve ==
    /\ dpcQueued
    /\ DpcForIsrRetrieve("STATUS_SUCCESS")

\* The DpcForIsr starts when the framework fails to hand out a request,
\* queued or not.
OsrDioEvtInterruptDpcRetrieveFails ==
    /\ dpcQueued
    /\ \E answer \in RetrieveFailures : DpcForIsrRetrieve(answer)

\* The rest of the DpcForIsr, for the request it holds: it asks for the
\* output buffer, copies LatchedInputLineState as it is at that moment, and
\* completes the request.  retrieve is what the framework answers when asked
\* for the buffer (a buffer shorter than OSRDIO_CHANGE_DATA is refused
\* whatever the answer).
DpcForIsrComplete(waitingRequest, retrieve) ==
    /\ waitingRequest \in dpcRunning
    /\ LET status == IF NT_SUCCESS(retrieve)
                         THEN WdfRequestRetrieveBuffer(
                                  waitingRequest.OutputBufferLength,
                                  SizeofChangeData)
                         ELSE retrieve
           bytesReturned == DpcBytesReturned(status)
           data == IF NT_SUCCESS(status) THEN LatchedInputLineState ELSE ZERO
       IN /\ completed' = WdfRequestCompleteWithInformation(
                              completed, waitingRequest.id)
          /\ last' = Did("Dpc", ZERO, 0, waitingRequest.OutputBufferLength,
                         waitingRequest.id, TRUE, status, bytesReturned,
                         data, <<>>)
    /\ dpcRunning' = dpcRunning \ {waitingRequest}
    /\ undelivered' = FALSE
    /\ seenCapture' = seenCapture \ {waitingRequest.id}
    /\ UNCHANGED capturedInRun
    /\ LatchedInputLineState' = LatchedAfterDpc(LatchedInputLineState)
    /\ UNCHANGED <<devState, DevBase, MappedLength, OutputLineMask,
                   SavedOutputLineState, PendingQueue, hw, dpcQueued,
                   nextRequest>>

\* The DpcForIsr goes on when the framework hands out every buffer that is
\* long enough.
OsrDioEvtInterruptDpc ==
    \E waitingRequest \in dpcRunning :
        DpcForIsrComplete(waitingRequest, "STATUS_SUCCESS")

\* The DpcForIsr goes on when the framework cannot hand out the output
\* buffer of the request it holds.
OsrDioEvtInterruptDpcNoBuffer ==
    \E waitingRequest \in dpcRunning :
        /\ waitingRequest.OutputBufferLength >= SizeofChangeData
        /\ DpcForIsrComplete(waitingRequest, "STATUS_INSUFFICIENT_RESOURCES")

(***************************************************************************)
(* Cancellation by the I/O manager: the client exits, or closes its        *)
(* handle, while a wait-for-change is queued.  The framework takes the     *)
(* request out of PendingQueue and completes it.                           *)
(***************************************************************************)
\* Variant: a cancelled request stays on the queue.
RemoveAt_Keep(queue, k) == queue

RemoveAt(queue, k) == SubSeq(queue, 1, k - 1) \o SubSeq(queue, k + 1, Len(queue))

CancelRequest(k) ==
    /\ k \in 1 .. Len(PendingQueue)
    /\ PendingQueue' = RemoveAt(PendingQueue, k)
    /\ completed' = WdfRequestCompleteWithInformation(completed,
                                                      PendingQueue[k].id)
    /\ last' = Did("Cancel", ZERO, 0, PendingQueue[k].OutputBufferLength,
                   PendingQueue[k].id, TRUE, "STATUS_CANCELLED", 0, ZERO,
                   <<>>)
    /\ seenCapture' = seenCapture \ {PendingQueue[k].id}
    /\ UNCHANGED <<devState, ctx, hw, dpcQueued, dpcRunning, nextRequest,
                   undelivered, capturedInRun>>

(***************************************************************************)
(* Specification                                                           *)
(***************************************************************************)
Next ==
    \/ \E list \in ResourceLists, mapped \in BOOLEAN :
           OsrDioEvtDevicePrepareHardware(list, mapped)
    \/ OsrDioEvtDeviceReleaseHardware
    \/ OsrDioEvtDeviceD0Entry
    \/ \E external \in InputValues :
           OsrDioEvtDeviceD0Exit(Static_Digital_Input(regs, external))
    \/ OsrDioEvtInterruptEnable
    \/ OsrDioEvtInterruptDisable
    \/ \E outLen \in BufferLengths, external \in InputValues :
           IoctlRead(outLen, Static_Digital_Input(regs, external))
    \/ \E inLen \in BufferLengths :
       \E requested \in Payloads(inLen, WriteValues) :
           IoctlWrite(inLen, requested)
    \/ \E inLen \in BufferLengths :
       \E requested \in Payloads(inLen, MaskValues) :
           IoctlSetOutputs(inLen, requested)
    \/ \E outLen \in BufferLengths, forwarded \in ForwardStatuses :
           IoctlWaitForChange(outLen, forwarded)
    \/ IoctlOther
    \/ \E in \in IsrInputs :
           OsrDioEvtInterruptIsr(in.interruptStatus, in.changeDetectReg,
                                 in.latched)
    \/ OsrDioEvtInterruptDpcRetrieve
    \/ OsrDioEvtInterruptDpcRetrieveFails
    \/ OsrDioEvtInterruptDpc
    \/ OsrDioEvtInterruptDpcNoBuffer
    \/ \E k \in 1 .. MaxRequests : CancelRequest(k)

Spec == Init /\ [][Next]_vars

\* The same steps, with fewer wait-for-change requests issued.
NextLive == Next /\ nextRequest' <= MaxLiveRequests + 1

\* A queued DpcForIsr is always run by the system, and runs to its end; the
\* framework may fail it, and is not bound to.
SpecLive ==
    /\ Init
    /\ [][NextLive]_vars
    /\ WF_vars(OsrDioEvtInterruptDpcRetrieve)
    /\ WF_vars(OsrDioEvtInterruptDpc)

(***************************************************************************)
(* Properties                                                              *)
(***************************************************************************)
\* The callback that ran last was the handler of this control code.
Handled(code) == last.op = code

\* C1: a successful write puts exactly (requested AND OutputLineMask) into the
\* static digital output register, with one register write; no line outside
\* the output mask is asserted by it, and the mask is non-zero.
C1_WriteAssertsMaskedLines ==
    (Handled("IOCTL_OSRDIO_WRITE") /\ last.status = "STATUS_SUCCESS") =>
        /\ OutputLineMask # ZERO
        /\ Len(last.acc) = 1
        /\ last.acc[1].rw = "W"
        /\ last.acc[1].reg = "Static_Digital_Output_Register"
        /\ \A line \in AllLines :
               line \in last.acc[1].val
                   <=> (line \in last.value /\ line \in OutputLineMask)
        /\ regs["Static_Digital_Output_Register"] = last.acc[1].val
        /\ last.information = SizeofWriteData

\* C1 happens: a write asked for lines outside the output mask and asserted
\* some, but not all, of the lines it asked for.
C1_Witness ==
    /\ Handled("IOCTL_OSRDIO_WRITE")
    /\ last.status = "STATUS_SUCCESS"
    /\ last.value \ OutputLineMask # {}
    /\ regs["Static_Digital_Output_Register"] # ZERO
    /\ regs["Static_Digital_Output_Register"] # last.value

\* C2: a write issued while OutputLineMask is 0 is completed with
\* STATUS_INVALID_DEVICE_STATE and zero bytes whatever its buffer; it
\* accesses no register and leaves the device context, the registers, the
\* pending queue and the device's state as they were.
C2_WriteWithoutOutputsFails ==
    [][(last'.op = "IOCTL_OSRDIO_WRITE" /\ OutputLineMask = ZERO) =>
           /\ last'.status = "STATUS_INVALID_DEVICE_STATE"
           /\ last'.information = 0
           /\ last'.completed
           /\ last'.acc = <<>>
           /\ UNCHANGED <<ctx, hw, PendingQueue, devState, completed>>]_vars

\* C2 happens: a write with a full-sized buffer failed for want of output
\* lines, on a device that still works.
C2_Witness ==
    /\ Handled("IOCTL_OSRDIO_WRITE")
    /\ last.status = "STATUS_INVALID_DEVICE_STATE"
    /\ last.inLen = SizeofWriteData
    /\ OutputLineMask = ZERO
    /\ devState = "Working"

\* C3 as stated: a wait-for-change is completed with STATUS_NONE_MAPPED
\* exactly when OutputLineMask is 0xFFFFFFFF, whatever its buffer size; under
\* any other mask a request whose buffer holds the change data is put at the
\* tail of the pending queue and is not completed by the dispatch.
C3_WaitRejectedIffNoInputLines ==
    Handled("IOCTL_OSRDIO_WAITFOR_CHANGE") =>
        /\ (last.status = "STATUS_NONE_MAPPED") <=> (OutputLineMask = AllLines)
        /\ (OutputLineMask # AllLines /\ last.outLen >= SizeofChangeData) =>
               /\ ~last.completed
               /\ completed[last.request] = 0
               /\ PendingQueue # <<>>
               /\ PendingQueue[Len(PendingQueue)].id = last.request

\* C3, amended: a wait-for-change is completed with STATUS_NONE_MAPPED
\* exactly when OutputLineMask is 0xFFFFFFFF, whatever its buffer size; under
\* any other mask a request whose buffer holds the change data is put at the
\* tail of the pending queue and is not completed by the dispatch, unless
\* WdfRequestForwardToIoQueue fails: then the dispatch completes it once
\* with the status of the forward and 0 bytes, and it is not in the queue.
C3_WaitQueuedUnlessForwardFails ==
    Handled("IOCTL_OSRDIO_WAITFOR_CHANGE") =>
        /\ (last.status = "STATUS_NONE_MAPPED") <=> (OutputLineMask = AllLines)
        /\ (OutputLineMask # AllLines /\ last.outLen >= SizeofChangeData) =>
               IF NT_SUCCESS(last.status)
                   THEN /\ ~last.completed
                        /\ completed[last.request] = 0
                        /\ PendingQueue # <<>>
                        /\ PendingQueue[Len(PendingQueue)].id = last.request
                   ELSE /\ last.status \in ForwardStatuses
                        /\ last.completed
                        /\ last.information = 0
                        /\ completed[last.request] = 1
                        /\ \A k \in 1 .. Len(PendingQueue) :
                               PendingQueue[k].id # last.request

\* C3 happens: with input lines configured and a full-sized buffer, the
\* forward of a wait failed while a wait forwarded earlier is still queued.
C3_Witness ==
    /\ Handled("IOCTL_OSRDIO_WAITFOR_CHANGE")
    /\ OutputLineMask = ULONG(15)
    /\ last.outLen = SizeofChangeData
    /\ last.status = "STATUS_WDF_BUSY"
    /\ PendingQueue # <<>>

\* C4: a wait-for-change rejected for want of input lines or for a short
\* buffer is completed by the dispatch, once, with that error and zero bytes;
\* it is not put into the pending queue, and the queue, the device context and
\* the registers are left as they were.
C4_RejectedWaitLeavesNoTrace ==
    [][(/\ last'.op = "IOCTL_OSRDIO_WAITFOR_CHANGE"
        /\ (OutputLineMask = AllLines \/ last'.outLen < SizeofChangeData)) =>
           /\ last'.completed
           /\ last'.status = (IF OutputLineMask = AllLines
                                 THEN "STATUS_NONE_MAPPED"
                                 ELSE "STATUS_INVALID_BUFFER_SIZE")
           /\ last'.information = 0
           /\ last'.acc = <<>>
           /\ completed' = [completed EXCEPT ![last'.request] = 1]
           /\ \A k \in 1 .. Len(PendingQueue') :
                  PendingQueue'[k].id # last'.request
           /\ UNCHANGED <<PendingQueue, ctx, hw>>]_vars

\* C4 happens: a wait with a short buffer was rejected while another wait is
\* queued.
C4_Witness ==
    /\ Handled("IOCTL_OSRDIO_WAITFOR_CHANGE")
    /\ last.status = "STATUS_INVALID_BUFFER_SIZE"
    /\ last.completed
    /\ PendingQueue # <<>>

\* C5: once set-output-mask(m) has succeeded, OutputLineMask and the direction
\* register hold m and both change-detection masks hold the complement of m:
\* every line is either an output or watched on both edges, never both.
C5_SetOutputsProgramsComplement ==
    (Handled("IOCTL_OSRDIO_SET_OUTPUTS") /\ last.status = "STATUS_SUCCESS") =>
        /\ OutputLineMask = last.value
        /\ regs["DIO_Direction_Register"] = last.value
        /\ \A line \in AllLines :
               /\ (line \in regs["DI_ChangeIrqRE_Register"])
                      <=> (line \notin last.value)
               /\ (line \in regs["DI_ChangeIrqFE_Register"])
                      <=> (line \notin last.value)

\* C5 happens: the low four lines were made outputs and the other 28 lines
\* are watched.
C5_Witness ==
    /\ Handled("IOCTL_OSRDIO_SET_OUTPUTS")
    /\ last.status = "STATUS_SUCCESS"
    /\ regs["DIO_Direction_Register"] = {0, 1, 2, 3}
    /\ regs["DI_ChangeIrqRE_Register"] = 4 .. 31
    /\ regs["DI_ChangeIrqFE_Register"] = 4 .. 31

\* C6: a set-output-mask whose input buffer holds the mask succeeds for every
\* mask, 0 and 0xFFFFFFFF included, and OutputLineMask becomes the requested
\* mask whatever it was before.
C6_SetOutputsReplacesMask ==
    [][(last'.op = "IOCTL_OSRDIO_SET_OUTPUTS"
        /\ last'.inLen >= SizeofSetOutputsData) =>
           /\ last'.status = "STATUS_SUCCESS"
           /\ last'.completed
           /\ last'.information = SizeofSetOutputsData
           /\ OutputLineMask' = last'.value]_vars

\* C6 happens: the mask was set to 0 although lines asserted under an earlier,
\* non-zero mask are still in the output register.
C6_Witness ==
    /\ Handled("IOCTL_OSRDIO_SET_OUTPUTS")
    /\ last.status = "STATUS_SUCCESS"
    /\ OutputLineMask = ZERO
    /\ regs["Static_Digital_Output_Register"] = ULONG(5)

\* The ids of the requests the running DpcForIsr instances hold.
HeldByDpc == {w.id : w \in dpcRunning}

\* C7 as stated: a DpcForIsr that finds the pending queue non-empty takes the
\* oldest request off it and completes it, once, with success, four bytes
\* and the current LatchedInputLineState; the other requests stay, in their
\* order.  (The DpcForIsr leaves without a request only when the queue is
\* empty.)
C7_DpcCompletesOldest ==
    [][/\ (last'.op = "Dpc" /\ ~last'.completed) => PendingQueue = <<>>
       /\ last'.op = "DpcRetrieve" =>
              /\ PendingQueue # <<>>
              /\ last'.request = PendingQueue[1].id
              /\ HeldByDpc' = HeldByDpc \cup {last'.request}
              /\ completed' = completed
              /\ Len(PendingQueue') = Len(PendingQueue) - 1
              /\ \A k \in 1 .. Len(PendingQueue') :
                     PendingQueue'[k] = PendingQueue[k + 1]
       /\ (last'.op = "Dpc" /\ last'.completed) =>
              /\ last'.request \in HeldByDpc
              /\ HeldByDpc' = HeldByDpc \ {last'.request}
              /\ last'.status = "STATUS_SUCCESS"
              /\ last'.information = SizeofChangeData
              /\ last'.data = LatchedInputLineState
              /\ completed[last'.request] = 0
              /\ completed' = [completed EXCEPT ![last'.request] = 1]
              /\ PendingQueue' = PendingQueue]_vars

\* C7, amended: a DpcForIsr that finds the pending queue non-empty and is
\* handed the oldest request takes it off the queue, the other requests
\* staying in their order, and completes it once: with success, four bytes
\* and the current LatchedInputLineState when it is handed the buffer of the
\* request, with the error of the framework, no bytes and no value when it
\* is not.  A DpcForIsr that is handed no request, the queue being empty or
\* the framework failing, takes none, completes none and leaves the queue as
\* it is.
C7_DpcCompletesOldestHandedOver ==
    [][/\ (last'.op = "Dpc" /\ ~last'.completed) =>
              /\ PendingQueue = <<>> \/ last'.status \in RetrieveFailures
              /\ ~NT_SUCCESS(last'.status)
              /\ PendingQueue' = PendingQueue
              /\ HeldByDpc' = HeldByDpc
              /\ completed' = completed
       /\ last'.op = "DpcRetrieve" =>
              /\ PendingQueue # <<>>
              /\ NT_SUCCESS(last'.status)
              /\ last'.request = PendingQueue[1].id
              /\ HeldByDpc' = HeldByDpc \cup {last'.request}
              /\ completed' = completed
              /\ Len(PendingQueue') = Len(PendingQueue) - 1
              /\ \A k \in 1 .. Len(PendingQueue') :
                     PendingQueue'[k] = PendingQueue[k + 1]
       /\ (last'.op = "Dpc" /\ last'.completed) =>
              /\ last'.request \in HeldByDpc
              /\ HeldByDpc' = HeldByDpc \ {last'.request}
              /\ IF NT_SUCCESS(last'.status)
                     THEN /\ last'.information = SizeofChangeData
                          /\ last'.data = LatchedInputLineState
                     ELSE /\ last'.status = "STATUS_INSUFFICIENT_RESOURCES"
                          /\ last'.information = 0
                          /\ last'.data = ZERO
              /\ completed[last'.request] = 0
              /\ completed' = [completed EXCEPT ![last'.request] = 1]
              /\ PendingQueue' = PendingQueue]_vars

\* C7 happens: the DpcForIsr completed the older of two requests with the
\* latched value 0xCAFEBABE, and the younger one is still queued.
C7_Witness ==
    /\ last.op = "Dpc"
    /\ last.completed
    /\ last.request = 1
    /\ last.data = ULONG_HiLo(51966, 47806)
    /\ LatchedInputLineState = ULONG_HiLo(51966, 47806)
    /\ Len(PendingQueue) = 1
    /\ PendingQueue[1].id = 2

\* C9 as stated: the pending queue never holds more than one request.
C9_AtMostOnePending == Len(PendingQueue) <= 1

\* C9, amended: sequential dispatch lets one request at a time into the
\* handler, and a wait-for-change leaves the handler when it is queued, so
\* the pending queue may hold several requests.  It holds each request at
\* most once, in the order of arrival, and holds exactly the requests that
\* were dispatched, have not been completed and have not been taken off the
\* queue by a DpcForIsr that has yet to complete them; no request is
\* completed more than once.
C9_PendingAreTheUncompleted ==
    /\ \A j, k \in 1 .. Len(PendingQueue) :
           j < k => PendingQueue[j].id < PendingQueue[k].id
    /\ \A id \in RequestIds :
           /\ completed[id] \in {0, 1}
           /\ (\E k \in 1 .. Len(PendingQueue) : PendingQueue[k].id = id)
                  <=> (/\ id < nextRequest
                       /\ completed[id] = 0
                       /\ id \notin HeldByDpc)

\* C9 happens: a second wait-for-change was dispatched and queued while the
\* first one is still pending.
C9_Witness ==
    /\ Handled("IOCTL_OSRDIO_WAITFOR_CHANGE")
    /\ ~last.completed
    /\ Len(PendingQueue) >= 2

\* The ISR has just captured a change: it read the latched line state.
IsrCaptured ==
    /\ last.op = "Isr"
    /\ \E k \in 1 .. Len(last.acc) :
           last.acc[k].reg = "DI_ChangeDetectLatched_Register"

\* C10: a DpcForIsr that leaves without a request, as it does whenever it
\* finds the pending queue empty (and when the framework hands it none),
\* completes nothing and changes nothing, and the run the change had
\* scheduled is spent; a request is completed only by a DpcForIsr that took
\* it off the queue, a DpcForIsr takes one only in a run that was scheduled,
\* and only a capture by the ISR schedules a run, so a request queued after
\* a dropped change waits for a further capture.
C10_DroppedChangeIsNotReplayed ==
    [][/\ (last'.op = "Dpc" /\ ~last'.completed) =>
              /\ PendingQueue = <<>> \/ last'.status \in RetrieveFailures
              /\ dpcQueued
              /\ ~dpcQueued'
              /\ UNCHANGED <<PendingQueue, dpcRunning, completed, ctx, hw>>
       /\ last'.op = "DpcRetrieve" => dpcQueued
       /\ (~dpcQueued /\ dpcQueued') => IsrCaptured'
       /\ (last'.op = "Dpc" /\ last'.completed) =>
              last'.request \in HeldByDpc
       /\ HeldByDpc' \subseteq
              HeldByDpc \cup (IF last'.op = "DpcRetrieve"
                                  THEN {last'.request} ELSE {})]_vars

\* C10 happens: a wait-for-change was queued after the DpcForIsr had run for
\* a captured change, and no DpcForIsr is due.
C10_Witness ==
    /\ Handled("IOCTL_OSRDIO_WAITFOR_CHANGE")
    /\ ~last.completed
    /\ Len(PendingQueue) = 1
    /\ completed = [id \in RequestIds |-> 0]
    /\ LatchedInputLineState \in LatchValues
    /\ ~undelivered
    /\ ~dpcQueued

\* The ISR has just captured latched value X while request r is the oldest
\* request in the pending queue.
CapturedFor(r, X) ==
    /\ IsrCaptured
    /\ LatchedInputLineState = X
    /\ PendingQueue # <<>>
    /\ PendingQueue[1].id = r

\* The DpcForIsr has just completed request r with payload X and r is no
\* longer queued.
DeliveredTo(r, X) ==
    /\ last.op = "Dpc"
    /\ last.completed
    /\ last.request = r
    /\ last.status = "STATUS_SUCCESS"
    /\ last.information = SizeofChangeData
    /\ last.data = X
    /\ completed[r] = 1
    /\ \A k \in 1 .. Len(PendingQueue) : PendingQueue[k].id # r

\* Another capture, of a value other than X, has just intervened.
OtherCapture(X) == IsrCaptured /\ LatchedInputLineState # X

\* Request r has just been cancelled.
CancelledBeforeDelivery(r) == last.op = "Cancel" /\ last.request = r

\* The DpcForIsr has just run and the framework did not hand it request r,
\* the oldest in the queue, or did not hand it the buffer of request r.
NotHandedOver(r) ==
    /\ last.op = "Dpc"
    /\ \/ /\ last.status \in RetrieveFailures
          /\ PendingQueue # <<>>
          /\ PendingQueue[1].id = r
       \/ /\ last.status = "STATUS_INSUFFICIENT_RESOURCES"
          /\ last.request = r

\* C8 as stated: when the ISR captures X while a wait-for-change is queued,
\* then, the DpcForIsr being run and no other capture intervening, the oldest
\* pending request is eventually completed with X and is out of the queue.
\* (A DpcForIsr the framework hands no request or no buffer to does not count
\* as run.)
C8_CaptureIsDelivered ==
    \A r \in 1 .. MaxLiveRequests, X \in LatchValues :
        CapturedFor(r, X) ~>
            (DeliveredTo(r, X) \/ OtherCapture(X) \/ NotHandedOver(r))

\* C8, amended: the same, unless the oldest pending request is cancelled
\* before the DpcForIsr runs (the change then goes to the next request in
\* the queue, or is dropped), or the framework does not hand the DpcForIsr
\* the request or its buffer.
C8_CaptureIsDeliveredUnlessCancelled ==
    \A r \in 1 .. MaxLiveRequests, X \in LatchValues :
        CapturedFor(r, X) ~>
            \/ DeliveredTo(r, X)
            \/ OtherCapture(X)
            \/ CancelledBeforeDelivery(r)
            \/ NotHandedOver(r)

\* C8 happens: the pending request was completed with the latched value
\* 0xCAFEBABE and the queue is empty again.
C8_Witness ==
    /\ DeliveredTo(1, ULONG_HiLo(51966, 47806))
    /\ LatchedInputLineState = ULONG_HiLo(51966, 47806)
    /\ PendingQueue = <<>>

\* Request r is in the pending queue.
Queued(r) == \E k \in 1 .. Len(PendingQueue) : PendingQueue[k].id = r

\* C11 as stated: a queued request stays queued and uncompleted through
\* every step, except that it leaves the queue when it is cancelled or when
\* the DpcForIsr takes it for a change captured after it was queued.
C11_LeavesOnlyByLaterCaptureOrCancel ==
    [][\A r \in RequestIds :
           Queued(r) =>
               \/ Queued(r)' /\ completed'[r] = 0
               \/ last'.op = "Cancel" /\ last'.request = r
               \/ /\ last'.op = "DpcRetrieve"
                  /\ last'.request = r
                  /\ r \in seenCapture]_vars

\* C11, amended: the same, except that the change whose DpcForIsr takes the
\* request may have been captured before the request was queued, when its
\* DpcForIsr had not yet run: a queued request leaves the queue only when it
\* is cancelled or when a DpcForIsr that was due takes it, a request a
\* DpcForIsr has taken stays with it, uncompleted, until that DpcForIsr
\* completes it, and a DpcForIsr becomes due only when the ISR captures a
\* change.
C11_LeavesOnlyByDpcOrCancel ==
    [][/\ \A r \in RequestIds :
              /\ Queued(r) =>
                     \/ Queued(r)' /\ completed'[r] = 0
                     \/ last'.op = "Cancel" /\ last'.request = r
                     \/ /\ last'.op = "DpcRetrieve"
                        /\ last'.request = r
                        /\ dpcQueued
                        /\ r \in HeldByDpc'
                        /\ completed'[r] = 0
              /\ r \in HeldByDpc =>
                     \/ r \in HeldByDpc' /\ completed'[r] = 0 /\ ~Queued(r)'
                     \/ last'.op = "Dpc" /\ last'.completed
                            /\ last'.request = r
       /\ (~dpcQueued /\ dpcQueued') => IsrCaptured']_vars

\* C11 happens: the device went through a power cycle and its interrupt was
\* enabled again while the first request stays queued, no change awaiting
\* delivery.
C11_Witness ==
    /\ last.op = "InterruptEnable"
    /\ SavedOutputLineState # ZERO
    /\ PendingQueue # <<>>
    /\ PendingQueue[1].id = 1
    /\ completed[1] = 0
    /\ ~undelivered

\* C12: when the DpcForIsr cannot obtain the output buffer of the request it
\* dequeued, that request is completed exactly once, with the status of the
\* failed buffer access and zero bytes; no latched value is handed to it, the
\* DpcForIsr is not queued again for it, and the other pending requests stay
\* queued in their order.
C12_NoBufferCompletesWithError ==
    [][(last'.op = "Dpc" /\ last'.request # 0 /\ ~NT_SUCCESS(last'.status)) =>
          /\ last'.request \in HeldByDpc
          /\ HeldByDpc' = HeldByDpc \ {last'.request}
          /\ completed[last'.request] = 0
          /\ completed' = [completed EXCEPT ![last'.request] = 1]
          /\ last'.status = "STATUS_INSUFFICIENT_RESOURCES"
          /\ last'.information = 0
          /\ last'.data = ZERO
          /\ PendingQueue' = PendingQueue
          /\ dpcQueued' = dpcQueued
          /\ UNCHANGED <<ctx, hw, devState>>]_vars

\* C12 happens: the buffer of the oldest of two pending requests could not be
\* obtained while a latched value was stored; the other one is still queued.
C12_Witness ==
    /\ last.op = "Dpc"
    /\ last.status = "STATUS_INSUFFICIENT_RESOURCES"
    /\ completed[last.request] = 1
    /\ LatchedInputLineState # ZERO
    /\ PendingQueue # <<>>
    /\ completed[PendingQueue[1].id] = 0

\* C13: a request that was completed, by cancellation or by the DpcForIsr, is
\* never on the queue again, never taken by the DpcForIsr and never completed
\* again: cancellation completes only a request that is queued and takes it
\* off the queue, the DpcForIsr takes only a queued, uncompleted request off
\* the queue and completes only a request it has taken, and a request the
\* DpcForIsr has taken is not cancelled, so no request is both cancelled and
\* delivered, whatever the interleaving.
C13_CancelledOrDeliveredNeverBoth ==
    [][\A r \in RequestIds :
          /\ completed[r] >= 1 =>
                 /\ completed'[r] = completed[r]
                 /\ ~Queued(r)'
                 /\ r \notin HeldByDpc'
          /\ (last'.op = "Cancel" /\ last'.request = r) =>
                 /\ Queued(r)
                 /\ r \notin HeldByDpc
                 /\ ~Queued(r)'
                 /\ completed'[r] = 1
          /\ (last'.op = "DpcRetrieve" /\ last'.request = r) =>
                 /\ Queued(r)
                 /\ ~Queued(r)'
                 /\ completed'[r] = 0
          /\ (last'.op = "Dpc" /\ last'.request = r) =>
                 /\ r \in HeldByDpc
                 /\ r \notin HeldByDpc'
                 /\ ~Queued(r)
                 /\ completed[r] = 0
                 /\ completed'[r] = 1]_vars

\* C13 happens: a request was cancelled while the DpcForIsr of a captured
\* change was queued, and another request is still waiting for that DpcForIsr.
C13_Witness ==
    /\ last.op = "Cancel"
    /\ completed[last.request] = 1
    /\ dpcQueued
    /\ undelivered
    /\ PendingQueue # <<>>

\* C14: when D0Entry runs right after D0Exit, it leaves in the static digital
\* output register the value that register held before the power-down,
\* restricted to the lines OutputLineMask named at the power-down.
C14_PowerCycleKeepsMaskedOutputs ==
    [][(last.op = "D0Exit" /\ last'.op = "D0Entry") =>
          regs'["Static_Digital_Output_Register"]
              = BitAnd(regs["Static_Digital_Output_Register"],
                       OutputLineMask)]_vars

\* C14 happens: the outputs were restored after a power-down, and a line that
\* is asserted came back.
C14_Witness ==
    /\ last.op = "D0Entry"
    /\ SavedOutputLineState # ZERO
    /\ OutputLineMask = AllLines
    /\ regs["Static_Digital_Output_Register"] = SavedOutputLineState

\* C15: while the device is powered down, SavedOutputLineState has no bit
\* outside OutputLineMask, and it is the value D0Exit read from the static
\* digital input register restricted to OutputLineMask.
C15_SavedStateIsMaskedInput ==
    devState = "Dx" =>
        /\ BitAnd(SavedOutputLineState, BitNot(OutputLineMask)) = ZERO
        /\ \E external \in InputValues :
               SavedOutputLineState
                   = BitAnd(Static_Digital_Input(regs, external), OutputLineMask)
        /\ last.op = "D0Exit" =>
               /\ Len(last.acc) = 1
               /\ last.acc[1].rw = "R"
               /\ last.acc[1].reg = "Static_Digital_Input_Register"
               /\ SavedOutputLineState = BitAnd(last.acc[1].val, OutputLineMask)

\* C15 happens: the value read at the power-down had lines set outside the
\* output mask, and some of its lines were saved.
C15_Witness ==
    /\ devState = "Dx"
    /\ last.op = "D0Exit"
    /\ SavedOutputLineState # ZERO
    /\ BitAnd(last.acc[1].val, BitNot(OutputLineMask)) # ZERO

\* The resource list names a register block of the expected size.
HasRegisterBlock(list) ==
    \E i \in 1 .. Len(list) : list[i] = MemoryResource(DIO_BAR_SIZE)

\* The resource list names an interrupt.
HasInterrupt(list) == \E i \in 1 .. Len(list) : list[i] = InterruptResource

\* C16: EvtDevicePrepareHardware fails exactly when no register block of the
\* expected size was mapped or the list has no interrupt; when it fails it
\* makes no register access and leaves OutputLineMask and
\* SavedOutputLineState as they were, and from then on the device is only
\* released: no register, mask or saved state changes any more.
C16_PrepareFailsWithoutResources ==
    [][/\ \A list \in ResourceLists, mapped \in BOOLEAN :
              OsrDioEvtDevicePrepareHardware(list, mapped) =>
                  (~NT_SUCCESS(last'.status)
                       <=> \/ ~(HasRegisterBlock(list) /\ mapped)
                           \/ ~HasInterrupt(list))
       /\ (last'.op = "PrepareHardware" /\ ~NT_SUCCESS(last'.status)) =>
              /\ last'.acc = <<>>
              /\ devState' = "PrepareFailed"
              /\ UNCHANGED <<hw, OutputLineMask, SavedOutputLineState>>
       /\ devState \in {"PrepareFailed", "Removed"} =>
              /\ devState' \in {"PrepareFailed", "Removed"}
              /\ UNCHANGED <<hw, OutputLineMask, SavedOutputLineState>>]_vars

\* C16 happens: the device was started once and given output lines, and the
\* next acquisition of its resources failed.
C16_Witness ==
    /\ devState = "PrepareFailed"
    /\ last.op = "PrepareHardware"
    /\ OutputLineMask # ZERO
    /\ regs["DIO_Direction_Register"] # ZERO

\* C17: a successful read makes one register access, a read of the static
\* digital input register, and returns that value unchanged; it changes no
\* register, no context field and no queue.  Read right after a successful
\* write, the lines of the value inside OutputLineMask are the lines the
\* write asked for inside OutputLineMask.
C17_ReadReturnsInputRegister ==
    [][(last'.op = "IOCTL_OSRDIO_READ" /\ NT_SUCCESS(last'.status)) =>
          /\ Len(last'.acc) = 1
          /\ last'.acc[1].rw = "R"
          /\ last'.acc[1].reg = "Static_Digital_Input_Register"
          /\ last'.data = last'.acc[1].val
          /\ last'.information = SizeofReadData
          /\ UNCHANGED <<ctx, hw, PendingQueue, dpcQueued, completed>>
          /\ (last.op = "IOCTL_OSRDIO_WRITE" /\ NT_SUCCESS(last.status)) =>
                 BitAnd(last'.data, OutputLineMask)
                     = BitAnd(last.value, OutputLineMask)]_vars

\* C17 happens: with output mask 0xF and 0x5 driven after a write of 0x35, a
\* read returned 0x5 on the output lines and other lines outside the mask.
C17_Witness ==
    /\ last.op = "IOCTL_OSRDIO_READ"
    /\ NT_SUCCESS(last.status)
    /\ OutputLineMask = ULONG(15)
    /\ regs["Static_Digital_Output_Register"] = ULONG(5)
    /\ BitAnd(last.data, OutputLineMask) = ULONG(5)
    /\ BitAnd(last.data, BitNot(OutputLineMask)) # ZERO

\* The register writes among the accesses acc, in order.
WritesOf(acc) == SelectSeq(acc, LAMBDA a : a.rw = "W")

\* C18: the ISR returns TRUE exactly when the Vol_Int bit of the volatile
\* interrupt status it read is set, whatever the other registers hold; when
\* the bit is clear the read of the status is its only register access, no
\* DpcForIsr is requested, and the latched line state, the context, the
\* registers, the queue and the completed requests are as before.
C18_IsrDisownsWithoutVolInt ==
    [][last'.op = "Isr" =>
          /\ Len(last'.acc) >= 1
          /\ last'.acc[1].rw = "R"
          /\ last'.acc[1].reg = "Volatile_Interrupt_Status_Register"
          /\ last'.status = "TRUE"
                 <=> BitAnd(last'.acc[1].val, Vol_Int) # ZERO
          /\ BitAnd(last'.acc[1].val, Vol_Int) = ZERO =>
                 /\ last'.status = "FALSE"
                 /\ Len(last'.acc) = 1
                 /\ UNCHANGED <<ctx, hw, PendingQueue, dpcQueued, completed,
                                devState>>]_vars

\* C18 happens: with a request pending and another interrupt source active,
\* the ISR found Vol_Int clear and returned FALSE.
C18_Witness ==
    /\ last.op = "Isr"
    /\ last.status = "FALSE"
    /\ last.acc[1].val # ZERO
    /\ PendingQueue # <<>>
    /\ ~dpcQueued

\* C19: when the ISR has read Vol_Int set and a change-detect status with the
\* status bit set and the error bit clear, it has read the latched line
\* state and stored it in LatchedInputLineState, its DpcForIsr is queued, and
\* its only register write is one acknowledge of the change-detect interrupt.
C19_IsrCapturesAndAcknowledges ==
    (/\ last.op = "Isr"
     /\ last.status = "TRUE"
     /\ BitAnd(last.acc[2].val, ChangeDetectStatus) # ZERO
     /\ BitAnd(last.acc[2].val, ChangeDetectError) = ZERO) =>
        /\ Len(last.acc) = 4
        /\ last.acc[3].rw = "R"
        /\ last.acc[3].reg = "DI_ChangeDetectLatched_Register"
        /\ LatchedInputLineState = last.acc[3].val
        /\ dpcQueued
        /\ WritesOf(last.acc)
               = << WRITE_REGISTER_ULONG("ChangeDetectIRQ_Register",
                                         ChangeDetectIRQ_Acknowledge) >>

\* C19 happens: the ISR captured 0xCAFEBABE over an older latched value while
\* a request was pending.
C19_Witness ==
    /\ last.op = "Isr"
    /\ Len(last.acc) = 4
    /\ last.acc[3].reg = "DI_ChangeDetectLatched_Register"
    /\ LatchedInputLineState = ULONG_HiLo(51966, 47806)
    /\ dpcQueued
    /\ PendingQueue # <<>>

\* C20: in an ISR invocation that owns the interrupt, the change-detect
\* acknowledge is written exactly when the status bit was read set and the
\* error acknowledge exactly when the error bit was read set, each at most
\* once and nothing else is written; when the error bit was set no latched
\* state is read or stored and no DpcForIsr is requested; when neither bit was
\* set no register is written.
C20_IsrAcknowledgesEachBit ==
    [][(last'.op = "Isr" /\ last'.status = "TRUE") =>
          LET changeDetectReg == last'.acc[2].val
              statusSet == BitAnd(changeDetectReg, ChangeDetectStatus) # ZERO
              errorSet == BitAnd(changeDetectReg, ChangeDetectError) # ZERO
              ackStatus == WRITE_REGISTER_ULONG("ChangeDetectIRQ_Register",
                                                ChangeDetectIRQ_Acknowledge)
              ackError == WRITE_REGISTER_ULONG("ChangeDetectIRQ_Register",
                                               ChangeDetectErrorIRQ_Acknowledge)
          IN /\ last'.acc[2].rw = "R"
             /\ last'.acc[2].reg = "ChangeDetectStatusRegister"
             /\ WritesOf(last'.acc)
                    = (IF statusSet THEN <<ackStatus>> ELSE <<>>)
                      \o (IF errorSet THEN <<ackError>> ELSE <<>>)
             /\ errorSet =>
                    /\ LatchedInputLineState' = LatchedInputLineState
                    /\ dpcQueued' = dpcQueued
                    /\ \A k \in 1 .. Len(last'.acc) :
                           last'.acc[k].reg # "DI_ChangeDetectLatched_Register"
             /\ (~statusSet /\ ~errorSet) =>
                    /\ Len(last'.acc) = 2
                    /\ UNCHANGED <<ctx, hw, dpcQueued>>]_vars

\* C20 happens: the ISR read both bits set while a request was pending and a
\* latched value was stored; it acknowledged both and queued no DpcForIsr.
C20_Witness ==
    /\ last.op = "Isr"
    /\ last.status = "TRUE"
    /\ Len(WritesOf(last.acc)) = 2
    /\ LatchedInputLineState # ZERO
    /\ ~dpcQueued
    /\ PendingQueue # <<>>

\* The step is an ISR invocation that stores a latched line state.
IsrStoresLatch ==
    /\ last'.op = "Isr"
    /\ \E k \in 1 .. Len(last'.acc) :
           last'.acc[k].reg = "DI_ChangeDetectLatched_Register"

\* The step is a DpcForIsr that hands the latched line state to a request.
DpcDelivers ==
    /\ last'.op = "Dpc"
    /\ last'.completed
    /\ NT_SUCCESS(last'.status)

C22_DpcOnEmptyQueueIsNoOp ==
    [][/\ (last'.op = "Dpc" /\ dpcRunning' = dpcRunning) =>
              /\ PendingQueue = <<>> \/ last'.status \in RetrieveFailures
              /\ ~NT_SUCCESS(last'.status)
              /\ ~last'.completed
              /\ last'.request = 0
              /\ last'.information = 0
              /\ last'.acc = <<>>
              /\ UNCHANGED <<DevBase, MappedLength, OutputLineMask,
                             SavedOutputLineState, LatchedInputLineState,
                             PendingQueue, completed, regs, irqEnabled,
                             devState, nextRequest>>
       /\ last'.op = "DpcRetrieve" => PendingQueue # <<>>]_vars

\* C22 happens: the DpcForIsr ran on an empty queue while the context held an
\* output mask and a latched value, after a request had been completed.
C22_Witness ==
    /\ last.op = "Dpc"
    /\ ~last.completed
    /\ PendingQueue = <<>>
    /\ LatchedInputLineState # ZERO
    /\ OutputLineMask # ZERO
    /\ completed[1] = 1

\* C23: in an ISR invocation that captures a change, the latched line state
\* is read before any register is written, the acknowledge of the
\* change-detect interrupt comes after that read, and the value stored in
\* LatchedInputLineState is the value read then.
C23_LatchReadBeforeAcknowledge ==
    IsrCaptured =>
        \E i, j \in 1 .. Len(last.acc) :
            /\ i < j
            /\ last.acc[i] = READ_REGISTER_ULONG("DI_ChangeDetectLatched_Register",
                                                 LatchedInputLineState)
            /\ last.acc[j] = WRITE_REGISTER_ULONG("ChangeDetectIRQ_Register",
                                                  ChangeDetectIRQ_Acknowledge)
            /\ \A k \in 1 .. i : last.acc[k].rw = "R"
            /\ last.data = LatchedInputLineState

\* C23 happens: the ISR captured the latched value 1 with no request pending
\* and acknowledged the change.
C23_Witness ==
    /\ IsrCaptured
    /\ LatchedInputLineState = ONE
    /\ last.acc[Len(last.acc)].rw = "W"
    /\ PendingQueue = <<>>
    /\ dpcQueued

\* C24: LatchedInputLineState changes only in a step of the ISR, and no
\* callback other than the DpcForIsr hands the latched value out; a step of
\* the ISR changes no other field of the device context, completes no
\* request, and leaves the pending queue as it is.
C24_LatchIsBetweenIsrAndDpc ==
    [][/\ LatchedInputLineState' # LatchedInputLineState => last'.op = "Isr"
       /\ last'.op = "Isr" =>
              /\ ~last'.completed
              /\ last'.request = 0
              /\ UNCHANGED <<DevBase, MappedLength, OutputLineMask,
                             SavedOutputLineState, PendingQueue, completed,
                             nextRequest, devState>>
       /\ (last'.op \notin {"Isr", "Dpc"} /\ LatchedInputLineState' # ZERO) =>
              last'.data # LatchedInputLineState']_vars

\* C24 happens: the ISR stored the latched value 1 while two requests were
\* pending and output lines were configured and saved.
C24_Witness ==
    /\ IsrCaptured
    /\ LatchedInputLineState = ONE
    /\ Len(PendingQueue) = 2
    /\ OutputLineMask # ZERO
    /\ SavedOutputLineState # ZERO

\* The access a enables an interrupt source.
EnablesSource(a) ==
    /\ a.rw = "W"
    /\ \E c \in InterruptCommands :
           c.enable /\ a.reg = c.reg /\ BitAnd(a.val, c.bit) # ZERO

\* The accesses run are made, one after the other, from position i of acc.
RunAt(acc, i, run) ==
    /\ i >= 1
    /\ i + Len(run) - 1 <= Len(acc)
    /\ SubSeq(acc, i, i + Len(run) - 1) = run

\* C25: in every callback, a write that enables an interrupt source belongs
\* to a run of DioUtilEnableDeviceInterrupts, and the accesses right before
\* that run are a run of DioUtilResetDeviceInterrupts, nothing in between.
C25_EnableFollowsReset ==
    \A k \in 1 .. Len(last.acc) :
        EnablesSource(last.acc[k]) =>
            \E i \in 1 .. k :
                /\ k < i + Len(DioUtilEnableDeviceInterrupts)
                /\ RunAt(last.acc, i, DioUtilEnableDeviceInterrupts)
                /\ RunAt(last.acc, i - Len(DioUtilResetDeviceInterrupts),
                         DioUtilResetDeviceInterrupts)

\* C25 happens: the interrupt was enabled again, after a power cycle that
\* saved output lines, and the change-detect source is on.
C25_Witness ==
    /\ last.op = "InterruptEnable"
    /\ \E k \in 1 .. Len(last.acc) : EnablesSource(last.acc[k])
    /\ "ChangeDetectIRQ" \in irqEnabled
    /\ SavedOutputLineState # ZERO
    /\ PendingQueue = <<>>

\* The access a disables an interrupt source.
DisablesSource(a) ==
    /\ a.rw = "W"
    /\ \E c \in InterruptCommands :
           ~c.enable /\ a.reg = c.reg /\ BitAnd(a.val, c.bit) # ZERO

\* The access a is the software reset of the device.
IsSoftwareReset(a) ==
    a = WRITE_REGISTER_ULONG("Joint_Reset_Register", Software_Reset)

\* C26: a callback that resets the device interrupts (interrupt enable,
\* interrupt disable, a successful hardware acquisition) begins with the
\* software reset write; the writes that disable the board-level, global and
\* change-detect sources and acknowledge the change-detect and error
\* interrupts all come after it, in the next three accesses, and turn every
\* source off whatever was on before.  No callback disables a source without
\* the software reset written earlier in it, and after interrupt disable no
\* source is enabled.
C26_ResetComesFirst ==
    /\ \A k \in 1 .. Len(last.acc) :
           DisablesSource(last.acc[k]) =>
               \E i \in 1 .. k - 1 : IsSoftwareReset(last.acc[i])
    /\ (\/ last.op \in {"InterruptEnable", "InterruptDisable"}
        \/ last.op = "PrepareHardware" /\ NT_SUCCESS(last.status)) =>
           /\ Len(last.acc) >= 4
           /\ IsSoftwareReset(last.acc[1])
           /\ \A k \in 2 .. 4 : DisablesSource(last.acc[k])
           /\ \A c \in InterruptCommands :
                  ~c.enable =>
                      \E k \in 2 .. 4 :
                          /\ last.acc[k].reg = c.reg
                          /\ BitAnd(last.acc[k].val, c.bit) # ZERO
           /\ \E k \in 2 .. 4 :
                  /\ last.acc[k].reg = "ChangeDetectIRQ_Register"
                  /\ BitAnd(last.acc[k].val, ChangeDetectIRQ_Acknowledge) # ZERO
                  /\ BitAnd(last.acc[k].val, ChangeDetectErrorIRQ_Acknowledge)
                         # ZERO
           /\ ApplyCommands(InterruptSources, SubSeq(last.acc, 1, 4)) = {}
    /\ last.op = "InterruptDisable" => irqEnabled = {}

\* C26 happens: the interrupt was disabled after it had been enabled, while a
\* request was pending.
C26_Witness ==
    /\ last.op = "InterruptDisable"
    /\ IsSoftwareReset(last.acc[1])
    /\ irqEnabled = {}
    /\ PendingQueue # <<>>

\* From any set of enabled interrupt sources, whatever the software reset
\* leaves enabled, a run of DioUtilResetDeviceInterrupts ends with one set of
\* enabled sources, and a second run, whatever its software reset leaves
\* enabled, ends with that set again.
ResetTwiceIsResetOnce ==
    \A enabled \in SUBSET InterruptSources :
        \A once \in RunOutcomes(enabled, DioUtilResetDeviceInterrupts) :
            RunOutcomes(once, DioUtilResetDeviceInterrupts) = {once}

\* DioUtilResetDeviceInterrupts reads nothing and writes no data register.
ResetWritesCommandsOnly ==
    \A k \in 1 .. Len(DioUtilResetDeviceInterrupts) :
        /\ DioUtilResetDeviceInterrupts[k].rw = "W"
        /\ DioUtilResetDeviceInterrupts[k].reg \notin DataRegisters

\* C27: running DioUtilResetDeviceInterrupts a second time changes nothing.
\* The routine only writes, so what it does depends on nothing it finds, and
\* it writes no data register.  From any set of enabled sources, and
\* whatever the software reset inside it leaves enabled, the sources enabled
\* after two runs are those enabled after one run.  The callbacks that run it
\* without anything else before it (interrupt disable, which is the routine
\* alone, and interrupt enable, which starts with it) leave every field of
\* the device context as it was; interrupt disable leaves the device as one
\* run of the routine leaves it, data registers untouched, and a further run
\* from the state it leaves would leave the enabled sources as they are.
C27_ResetIsIdempotent ==
    [][/\ ResetWritesCommandsOnly
       /\ ResetTwiceIsResetOnce
       /\ last'.op = "InterruptEnable" =>
              /\ SubSeq(last'.acc, 1, Len(DioUtilResetDeviceInterrupts))
                     = DioUtilResetDeviceInterrupts
              /\ UNCHANGED ctx
       /\ last'.op = "InterruptDisable" =>
              /\ last'.acc = DioUtilResetDeviceInterrupts
              /\ UNCHANGED <<ctx, PendingQueue, completed>>
              /\ regs' = regs
              /\ irqEnabled' \in
                     RunOutcomes(irqEnabled, DioUtilResetDeviceInterrupts)
              /\ RunOutcomes(irqEnabled', DioUtilResetDeviceInterrupts)
                     = {irqEnabled'}]_vars

\* C27 happens: interrupt disable ran the reset with output lines driven and
\* the direction register programmed, at the start of a power-down.
C27_Witness ==
    /\ last.op = "InterruptDisable"
    /\ last.acc = DioUtilResetDeviceInterrupts
    /\ regs["Static_Digital_Output_Register"] # ZERO
    /\ regs["DIO_Direction_Register"] # ZERO
    /\ OutputLineMask # ZERO

\* The access a writes one of the two edge watch masks.
WritesEdgeMask(a) ==
    /\ a.rw = "W"
    /\ a.reg \in {"DI_ChangeIrqRE_Register", "DI_ChangeIrqFE_Register"}

\* C28: the callbacks that program the line direction and change masks (a
\* successful set-outputs, interrupt enable) end with five writes in this
\* order: both input filters to the largest setting, the direction register
\* from OutputLineMask, the rising-edge mask, the falling-edge mask.  In no
\* callback is an edge mask written unless the direction register was
\* written, from OutputLineMask, earlier in the same callback.
C28_DirectionBeforeEdgeMasks ==
    /\ \A k \in 1 .. Len(last.acc) :
           WritesEdgeMask(last.acc[k]) =>
               \E j \in 1 .. k - 1 :
                   last.acc[j] = WRITE_REGISTER_ULONG("DIO_Direction_Register",
                                                      OutputLineMask)
    /\ (\/ last.op = "InterruptEnable"
        \/ last.op = "IOCTL_OSRDIO_SET_OUTPUTS" /\ NT_SUCCESS(last.status)) =>
           LET n == Len(last.acc) IN
           /\ n >= 5
           /\ last.acc[n - 4] = WRITE_REGISTER_ULONG("DI_FilterRegister_Port0and1",
                                                     Filter_Large_All_Lines)
           /\ last.acc[n - 3] = WRITE_REGISTER_ULONG("DI_FilterRegister_Port2and3",
                                                     Filter_Large_All_Lines)
           /\ last.acc[n - 2] = WRITE_REGISTER_ULONG("DIO_Direction_Register",
                                                     OutputLineMask)
           /\ last.acc[n - 1].reg = "DI_ChangeIrqRE_Register"
           /\ last.acc[n].reg = "DI_ChangeIrqFE_Register"
           /\ \A k \in 1 .. n - 2 : ~WritesEdgeMask(last.acc[k])

\* C28 happens: set-outputs programmed the direction register with 0xF over
\* an earlier mask of all lines, then the edge masks.
C28_Witness ==
    /\ last.op = "IOCTL_OSRDIO_SET_OUTPUTS"
    /\ NT_SUCCESS(last.status)
    /\ OutputLineMask = ULONG(15)
    /\ regs["Static_Digital_Output_Register"] = ULONG(53)
    /\ WritesEdgeMask(last.acc[Len(last.acc)])

\* The access a programs the direction register from OutputLineMask.
ProgramsDirection(a) ==
    a = WRITE_REGISTER_ULONG("DIO_Direction_Register", OutputLineMask)

\* C29 as stated: in interrupt enable, the direction register is programmed
\* from OutputLineMask before any interrupt source is enabled.
C29_DirectionBeforeEnable ==
    last.op = "InterruptEnable" =>
        \A k \in 1 .. Len(last.acc) :
            EnablesSource(last.acc[k]) =>
                \E j \in 1 .. k - 1 : ProgramsDirection(last.acc[j])

\* C29, amended: in interrupt enable, the direction register is programmed
\* from OutputLineMask once, after the interrupt sources were reset and
\* enabled, and before the edge watch masks are written; the sources that are
\* enabled are the input-change interrupt, the change-detect and error
\* interrupts and the two board-level interrupts to the host.
C29_DirectionAfterEnableBeforeEdgeMasks ==
    last.op = "InterruptEnable" =>
        \E j \in 1 .. Len(last.acc) :
            /\ ProgramsDirection(last.acc[j])
            /\ \A k \in 1 .. Len(last.acc) :
                   /\ ProgramsDirection(last.acc[k]) => k = j
                   /\ EnablesSource(last.acc[k]) => k < j
                   /\ DisablesSource(last.acc[k]) => k < j
                   /\ WritesEdgeMask(last.acc[k]) => k > j
            /\ \E k \in 1 .. j - 1 : EnablesSource(last.acc[k])
            /\ irqEnabled = {"CPU_Int", "STC3_Int", "DI_Interrupt",
                             "ChangeDetectIRQ", "ChangeDetectErrorIRQ"}
            /\ regs["DIO_Direction_Register"] = OutputLineMask

\* C29 happens: the interrupt was enabled again with output mask 0xF, while a
\* request was pending.
C29_Witness ==
    /\ last.op = "InterruptEnable"
    /\ OutputLineMask = ULONG(15)
    /\ regs["DIO_Direction_Register"] = ULONG(15)
    /\ "DI_Interrupt" \in irqEnabled
    /\ PendingQueue # <<>>

\* C30: power-up makes one register access, the write of
\* SavedOutputLineState to the static digital output register, and changes
\* no field of the device context and no interrupt source; power-down writes
\* no register and changes no field of the device context other than
\* SavedOutputLineState.  Neither touches the pending queue or a request.
C30_PowerLeavesInterruptsAlone ==
    [][/\ last'.op = "D0Entry" =>
              /\ last'.acc
                     = << WRITE_REGISTER_ULONG("Static_Digital_Output_Register",
                                               SavedOutputLineState) >>
              /\ regs' = [regs EXCEPT !["Static_Digital_Output_Register"]
                                          = SavedOutputLineState]
              /\ UNCHANGED <<ctx, irqEnabled, PendingQueue, completed,
                             dpcQueued>>
       /\ last'.op = "D0Exit" =>
              /\ WritesOf(last'.acc) = <<>>
              /\ UNCHANGED <<regs, irqEnabled, DevBase, MappedLength,
                             OutputLineMask, LatchedInputLineState,
                             PendingQueue, completed, dpcQueued>>]_vars

\* C30 happens: power-up restored output lines while the direction register
\* and the edge masks keep what set-outputs programmed and a request is
\* pending.
C30_Witness ==
    /\ last.op = "D0Entry"
    /\ SavedOutputLineState # ZERO
    /\ regs["DIO_Direction_Register"] = ULONG(15)
    /\ regs["DI_ChangeIrqRE_Register"] = BitNot(ULONG(15))
    /\ PendingQueue # <<>>

\* The callback that ran last was a successful EvtDevicePrepareHardware.
Acquired == last.op = "PrepareHardware" /\ NT_SUCCESS(last.status)

\* C31: a successful hardware acquisition leaves OutputLineMask and
\* SavedOutputLineState zero, every interrupt source disabled by the reset
\* sequence, and the direction register, the output register and both edge
\* masks zero; the power-up that follows it writes zero to the output
\* register, so no output line is asserted.
C31_AcquisitionStartsFromZero ==
    [][/\ Acquired' =>
              /\ OutputLineMask' = ZERO
              /\ SavedOutputLineState' = ZERO
              /\ IsSoftwareReset(last'.acc[1])
              /\ irqEnabled' = {}
              /\ regs'["DIO_Direction_Register"] = ZERO
              /\ regs'["Static_Digital_Output_Register"] = ZERO
              /\ regs'["DI_ChangeIrqRE_Register"] = ZERO
              /\ regs'["DI_ChangeIrqFE_Register"] = ZERO
       /\ (Acquired /\ last'.op = "D0Entry") =>
              /\ last'.acc
                     = << WRITE_REGISTER_ULONG("Static_Digital_Output_Register",
                                               ZERO) >>
              /\ regs'["Static_Digital_Output_Register"] = ZERO
              /\ Static_Digital_Input(regs', ZERO) = ZERO]_vars

\* C31 happens: the device, used before (a line state was latched), was
\* acquired again and powered up; the interrupt has not been enabled since,
\* the edge masks are still zero, and no line is driven.
C31_Witness ==
    /\ last.op = "D0Entry"
    /\ LatchedInputLineState # ZERO
    /\ OutputLineMask = ZERO
    /\ SavedOutputLineState = ZERO
    /\ irqEnabled = {}
    /\ regs["Static_Digital_Output_Register"] = ZERO
    /\ regs["DIO_Direction_Register"] = ZERO
    /\ regs["DI_ChangeIrqRE_Register"] = ZERO

\* C32: a read, write, set-outputs or unknown request is completed by the
\* dispatch routine and touches no tracked request.  A wait-for-change is
\* either completed by the dispatch routine with an error and not queued, or
\* queued and left uncompleted, never both.  The DpcForIsr completes only a
\* request it has taken off the queue, taking it completes nothing, and that
\* completion is the request's first; no request is ever completed twice.
C32_CompletedExactlyOnce ==
    [][/\ last'.op \in {"IOCTL_OSRDIO_READ", "IOCTL_OSRDIO_WRITE",
                        "IOCTL_OSRDIO_SET_OUTPUTS", "IOCTL_OTHER"} =>
              /\ last'.completed
              /\ UNCHANGED <<completed, PendingQueue>>
       /\ last'.op = "IOCTL_OSRDIO_WAITFOR_CHANGE" =>
              \E r \in RequestIds :
                  /\ r = last'.request
                  /\ \/ /\ last'.completed
                        /\ ~NT_SUCCESS(last'.status)
                        /\ completed' = [completed EXCEPT ![r] = 1]
                        /\ ~Queued(r)'
                        /\ UNCHANGED PendingQueue
                     \/ /\ ~last'.completed
                        /\ NT_SUCCESS(last'.status)
                        /\ completed'[r] = 0
                        /\ UNCHANGED completed
                        /\ ~Queued(r)
                        /\ Queued(r)'
       /\ last'.op = "DpcRetrieve" =>
              /\ last'.request \in HeldByDpc' \ HeldByDpc
              /\ ~last'.completed
              /\ UNCHANGED completed
       /\ (last'.op = "Dpc" /\ last'.completed) =>
              \E r \in RequestIds :
                  /\ r = last'.request
                  /\ r \in HeldByDpc \ HeldByDpc'
                  /\ ~Queued(r)'
                  /\ completed[r] = 0
                  /\ completed' = [completed EXCEPT ![r] = 1]
       /\ \A r \in RequestIds : completed'[r] <= 1]_vars

\* C32 happens: the dispatch routine has just completed the second
\* wait-for-change with an error, after a change was captured and lost; the
\* first was forwarded and is still queued, uncompleted.
C32_Witness ==
    /\ Handled("IOCTL_OSRDIO_WAITFOR_CHANGE")
    /\ last.completed
    /\ last.request = 2
    /\ completed = [r \in RequestIds |-> IF r = 1 THEN 0 ELSE 1]
    /\ Queued(1)
    /\ LatchedInputLineState # ZERO
    /\ ~dpcQueued

\* The interrupt sources EvtInterruptEnable turns on.
EnabledSources ==
    {"DI_Interrupt", "ChangeDetectIRQ", "ChangeDetectErrorIRQ", "CPU_Int",
     "STC3_Int"}

\* C33: whenever the interrupt is enabled (no callback being in progress),
\* the sources are on, the direction register holds OutputLineMask and both
\* edge masks hold its complement.  While the device is acquired and the
\* interrupt is not enabled, every source is off, the direction register
\* holds OutputLineMask, and the edge masks hold its complement or are still
\* zero from the device reset: OutputLineMask never changes without the
\* registers following before the device can signal a change.
C33_RegistersFollowOutputLineMask ==
    /\ devState = "Working" =>
           /\ irqEnabled = EnabledSources
           /\ regs["DIO_Direction_Register"] = OutputLineMask
           /\ regs["DI_ChangeIrqRE_Register"] = BitNot(OutputLineMask)
           /\ regs["DI_ChangeIrqFE_Register"] = BitNot(OutputLineMask)
    /\ devState \in {"Dx", "D0"} =>
           /\ irqEnabled = {}
           /\ regs["DIO_Direction_Register"] = OutputLineMask
           /\ regs["DI_ChangeIrqRE_Register"] \in {BitNot(OutputLineMask), ZERO}
           /\ regs["DI_ChangeIrqFE_Register"] = regs["DI_ChangeIrqRE_Register"]

\* C33 happens: with the interrupt enabled, after a power cycle that saved
\* asserted outputs, set-outputs has just made every line an output; the
\* direction register is all-ones and the edge masks are zero.
C33_Witness ==
    /\ devState = "Working"
    /\ Handled("IOCTL_OSRDIO_SET_OUTPUTS")
    /\ NT_SUCCESS(last.status)
    /\ SavedOutputLineState # ZERO
    /\ OutputLineMask = AllLines
    /\ regs["DIO_Direction_Register"] = AllLines
    /\ regs["DI_ChangeIrqFE_Register"] = ZERO
    /\ irqEnabled = EnabledSources

\* The output register holds no bit outside OutputLineMask.
OutputsWithinMask ==
    BitAnd(regs["Static_Digital_Output_Register"], BitNot(OutputLineMask)) = ZERO

\* The callback wrote the output register.
WritesOutputRegister(acc) ==
    \E k \in 1 .. Len(acc) :
        acc[k].rw = "W" /\ acc[k].reg = "Static_Digital_Output_Register"

\* C34 as stated: in every state after acquisition the output register holds
\* no bit outside the current OutputLineMask.
C34_OutputRegisterWithinMask ==
    devState \in {"Dx", "D0", "Working"} => OutputsWithinMask

\* C34, amended: every callback that writes the output register (write,
\* power-up, device reset) leaves it without a bit outside OutputLineMask, and
\* the register comes to hold such a bit only when set-outputs takes lines
\* out of the mask: set-outputs does not write the output register.  The
\* lines the device drives, those of the output register that the direction
\* register makes outputs, stay within OutputLineMask in every state after
\* acquisition.
C34_WritesStayWithinMask ==
    [][/\ (last' # last /\ WritesOutputRegister(last'.acc)) =>
              OutputsWithinMask'
       /\ (OutputsWithinMask /\ ~OutputsWithinMask') =>
              /\ last'.op = "IOCTL_OSRDIO_SET_OUTPUTS"
              /\ BitAnd(OutputLineMask, BitNot(OutputLineMask')) # ZERO
              /\ regs'["Static_Digital_Output_Register"]
                     = regs["Static_Digital_Output_Register"]
       /\ devState' \in {"Dx", "D0", "Working"} =>
              BitAnd(Static_Digital_Input(regs', ZERO), BitNot(OutputLineMask'))
                  = ZERO]_vars

\* C34 happens: lines 0 and 2 were asserted under the mask 0x0000000F and
\* set-outputs then made every line an input; the output register still
\* holds 0x00000005, and the direction register drives no line.
C34_Witness ==
    /\ Handled("IOCTL_OSRDIO_SET_OUTPUTS")
    /\ OutputLineMask = ZERO
    /\ regs["Static_Digital_Output_Register"] = ULONG(5)
    /\ regs["DIO_Direction_Register"] = ZERO
    /\ Static_Digital_Input(regs, ZERO) = ZERO

\* Requests are pending while every line is an output.
WaitingWithoutInputLines == PendingQueue # <<>> /\ OutputLineMask = AllLines

\* C35 as stated: whenever a request is pending, at least one line is an
\* input.
C35_PendingImpliesInputLine == PendingQueue # <<>> => OutputLineMask # AllLines

\* C35, amended: at least one line is an input at the moment a request is
\* placed in the pending queue.  Requests come to be pending with every line
\* an output only when set-outputs makes every line an output while they are
\* queued; set-outputs leaves the queue as it is.
C35_InputLineWhenQueued ==
    [][/\ \A r \in RequestIds :
              (~Queued(r) /\ Queued(r)') =>
                  /\ last'.op = "IOCTL_OSRDIO_WAITFOR_CHANGE"
                  /\ OutputLineMask # AllLines
                  /\ UNCHANGED OutputLineMask
       /\ (~WaitingWithoutInputLines /\ WaitingWithoutInputLines') =>
              /\ last'.op = "IOCTL_OSRDIO_SET_OUTPUTS"
              /\ NT_SUCCESS(last'.status)
              /\ last'.value = AllLines
              /\ PendingQueue # <<>>
              /\ UNCHANGED <<PendingQueue, completed>>]_vars

\* C35 happens: set-outputs has just made every line an output while a
\* wait-for-change, queued earlier, stays pending and uncompleted.
C35_Witness ==
    /\ Handled("IOCTL_OSRDIO_SET_OUTPUTS")
    /\ NT_SUCCESS(last.status)
    /\ OutputLineMask = AllLines
    /\ regs["DI_ChangeIrqRE_Register"] = ZERO
    /\ PendingQueue # <<>>
    /\ completed[PendingQueue[1].id] = 0

\* C36 as stated: the DpcForIsr only ever completes a request with a latched
\* value that the ISR captured while that request was already queued.
C36_CapturedAfterQueued ==
    [][DpcDelivers => last'.request \in seenCapture]_vars

\* C36, amended: the DpcForIsr takes the oldest queued request and completes
\* it with the value the ISR captured last before the DpcForIsr reads it.
\* While a request that was queued at that capture is still in the queue, it
\* is such a request that the DpcForIsr takes; a request queued between the
\* capture and the run of the DpcForIsr is taken, and completed with the
\* value captured before it was queued, when no request queued at the
\* capture is left in the queue and no further capture comes first.
C36_CapturedBeforeDpcRuns ==
    [][/\ last'.op = "DpcRetrieve" =>
              /\ PendingQueue # <<>>
              /\ last'.request = PendingQueue[1].id
              /\ (\E k \in 1 .. Len(PendingQueue) :
                      PendingQueue[k].id \in seenCapture)
                     => last'.request \in seenCapture
              /\ UNCHANGED <<seenCapture, LatchedInputLineState>>
       /\ DpcDelivers =>
              /\ last'.data = LatchedInputLineState
              /\ last'.request \in HeldByDpc
       /\ IsrStoresLatch =>
              seenCapture' =
                  {PendingQueue[k].id : k \in 1 .. Len(PendingQueue)}
                  \cup HeldByDpc]_vars

\* C36 happens: a wait-for-change has just been queued after the ISR captured
\* 0xCAFEBABE and before the DpcForIsr that capture scheduled has run; it is
\* the only request pending, the one that DpcForIsr will complete.
C36_Witness ==
    /\ Handled("IOCTL_OSRDIO_WAITFOR_CHANGE")
    /\ ~last.completed
    /\ dpcQueued
    /\ undelivered
    /\ seenCapture = {}
    /\ LatchedInputLineState = ULONG_HiLo(51966, 47806)
    /\ Len(PendingQueue) = 1
    /\ PendingQueue[1].id = last.request

\* The step is the start of a run of the DpcForIsr: it takes a request off
\* the queue, or finds none and leaves.
DpcStarts ==
    \/ last'.op = "DpcRetrieve"
    \/ last'.op = "Dpc" /\ ~last'.completed

\* C37 as stated: the runs of the DpcForIsr, those made and the one pending,
\* are as many as the captures.  The interrupt object holds one DpcForIsr,
\* queued or not, so this asks that every capture finds no run pending and
\* schedules one, and that every run takes one away.
C37_OneRunPerCapture ==
    [][/\ IsrStoresLatch => (~dpcQueued /\ dpcQueued')
       /\ DpcStarts => (dpcQueued /\ ~dpcQueued')]_vars

\* C37, amended: every capture leaves one run of the DpcForIsr pending, and
\* only a capture makes a run pending; a capture made while a run is pending
\* shares that run.  A run, when it starts, takes the pending run away, so
\* it follows at least one capture made since the start of the run before;
\* it takes at most one request off the queue and completes no other.
C37_CapturesShareOneRun ==
    [][/\ IsrStoresLatch => dpcQueued'
       /\ (~dpcQueued /\ dpcQueued') => IsrStoresLatch
       /\ DpcStarts =>
              /\ dpcQueued
              /\ ~dpcQueued'
              /\ Len(PendingQueue') >= Len(PendingQueue) - 1
              /\ Cardinality(dpcRunning') <= Cardinality(dpcRunning) + 1
              /\ completed' = completed
       /\ (last'.op = "Dpc" /\ last'.completed) =>
              /\ dpcQueued' = dpcQueued
              /\ PendingQueue' = PendingQueue
              /\ dpcRunning' \subseteq dpcRunning
              /\ Cardinality(dpcRunning') = Cardinality(dpcRunning) - 1
              /\ \A r \in RequestIds :
                     completed'[r] # completed[r] => last'.request = r]_vars

\* C37 happens: the ISR has just captured the value 1 with two requests
\* queued; one run of the DpcForIsr is pending.
C37_Witness ==
    /\ last.op = "Isr"
    /\ last.data = ONE
    /\ LatchedInputLineState = ONE
    /\ dpcQueued
    /\ undelivered
    /\ Len(PendingQueue) = 2
    /\ seenCapture = {PendingQueue[1].id, PendingQueue[2].id}

\* C38: a callback that reads or writes a register (the device reset of
\* hardware acquisition, power-up, power-down, interrupt enable and disable,
\* the control operations, the ISR) runs with DevBase non-null and
\* MappedLength non-zero, and so does every state in which such a callback
\* can run; DevBase is null exactly when MappedLength is 0, and after release
\* DevBase is null and MappedLength is 0.
C38_RegistersMappedWhenAccessed ==
    /\ last.acc # <<>> => (DevBase = "mapped" /\ MappedLength = DIO_BAR_SIZE)
    /\ devState \in {"Dx", "D0", "Working"} =>
           (DevBase = "mapped" /\ MappedLength = DIO_BAR_SIZE)
    /\ DevBase = "nullptr" <=> MappedLength = 0
    /\ last.op = "ReleaseHardware" => (DevBase = "nullptr" /\ MappedLength = 0)

\* C38 happens: the device was acquired, used (a line state was latched and
\* outputs were saved at power-down) and released; the mapping is gone.
C38_Witness ==
    /\ last.op = "ReleaseHardware"
    /\ devState = "Added"
    /\ LatchedInputLineState # ZERO
    /\ SavedOutputLineState # ZERO
    /\ DevBase = "nullptr"
    /\ MappedLength = 0

\* C39: the callbacks of a power cycle (interrupt disable, power-down,
\* power-up, interrupt enable) leave OutputLineMask and the pending queue as
\* they are and complete no request; while the device is powered down or
\* waits for its interrupt to be enabled, no callback changes OutputLineMask,
\* the direction register or the edge masks, and the device leaves the
\* powered-down state by power-up unless it is released; and interrupt
\* enable leaves the sources on, the direction register equal to
\* OutputLineMask and both edge masks equal to its complement, so the
\* requests queued before the cycle wait for a change on the same input
\* lines after it.
C39_PowerCycleKeepsConfiguration ==
    [][/\ last'.op \in {"InterruptDisable", "D0Exit", "D0Entry",
                        "InterruptEnable"} =>
              /\ UNCHANGED <<OutputLineMask, PendingQueue, completed,
                             LatchedInputLineState>>
              /\ \A r \in RequestIds : Queued(r) => Queued(r)'
       /\ (devState = "Dx" /\ devState' # "Dx") =>
              \/ last'.op = "D0Entry" /\ devState' = "D0"
              \/ last'.op = "ReleaseHardware" /\ devState' = "Added"
       /\ (devState \in {"Dx", "D0"} /\ devState' \in {"Dx", "D0"}) =>
              UNCHANGED <<OutputLineMask, regs["DIO_Direction_Register"],
                          regs["DI_ChangeIrqRE_Register"],
                          regs["DI_ChangeIrqFE_Register"]>>
       /\ last'.op = "InterruptEnable" =>
              /\ devState' = "Working"
              /\ irqEnabled' = EnabledSources
              /\ regs'["DIO_Direction_Register"] = OutputLineMask
              /\ regs'["DI_ChangeIrqRE_Register"] = BitNot(OutputLineMask)
              /\ regs'["DI_ChangeIrqFE_Register"] = BitNot(OutputLineMask)
              /\ regs'["Static_Digital_Output_Register"]
                     = regs["Static_Digital_Output_Register"]]_vars

\* C39 happens: the interrupt has just been enabled again with a request
\* still queued and uncompleted; the outputs saved at a power-down under the
\* mask 0x0000000F are back in the output register, the direction register
\* holds the mask and the edge masks its complement.
C39_Witness ==
    /\ last.op = "InterruptEnable"
    /\ devState = "Working"
    /\ OutputLineMask = ULONG(15)
    /\ SavedOutputLineState = ULONG(5)
    /\ regs["Static_Digital_Output_Register"] = ULONG(5)
    /\ regs["DIO_Direction_Register"] = ULONG(15)
    /\ regs["DI_ChangeIrqRE_Register"] = BitNot(ULONG(15))
    /\ irqEnabled = EnabledSources
    /\ PendingQueue # <<>>
    /\ completed[PendingQueue[1].id] = 0
    /\ ~dpcQueued

=========================================================================
